---- MODULE Spec2Model ----
(***************************************************************************)
(* Model of the scheduling coordination algorithms of pycity_scheduling:   *)
(* the sequential dual decomposition function, the MPI dual decomposition  *)
(* class, the central optimization function, the named-schedule operations *)
(* of an entity, the extraction and model-population utilities, and the    *)
(* populate_model, get_objective and update_model methods of the entity    *)
(* classes.                                                                *)
(*                                                                         *)
(* Powers, incentive signals and tolerances are integers; the solver is a  *)
(* black box whose answer (status and variable values) is chosen freely.   *)
(***************************************************************************)
EXTENDS Integers, Sequences, FiniteSets, TLC

\* ------------------------------------------------------------------ bounds
Horizon == 2            \* op_horizon: number of scheduling time steps
NumNodes == 2           \* number of nodes (direct children) of the district
PowerMax == 1           \* power of an entity that runs; an idle one has 0
MaxIterCap == 2         \* largest max_iterations a caller passes
MaxRho == 2             \* largest step size rho a caller passes
MaxEps == 1             \* largest eps_primal a caller passes
MaxMpiSize == 3         \* largest number of MPI processes
MaxBound == 3           \* largest magnitude of a variable bound, in halves
MaxCoeff == 2           \* largest coeff passed to get_objective
MaxTimestep == 2        \* last value of the timestep pointer
MaxCalls == 3           \* update_model calls on one model
MaxModels == 2          \* models populated for one battery
MaxWorkers == 6         \* largest mpi_size the node assignment is computed for
MaxEntities == 7        \* largest len(self.nodes) the assignment is computed for
MaxRanks == 5           \* largest number of MPI processes of a whole run

\* --------------------------------------------------------------- constants
Inf == 9999             \* np.inf, the first entry of r_norms

op_time_vec == 0 .. (Horizon - 1)
NodeIds == 1 .. NumNodes            \* keys of city_district.nodes, in order
Entities == 0 .. NumNodes           \* 0 is the aggregator (the district)
PowerVals == {0, PowerMax}          \* values of one variable in a solution
Vec == [op_time_vec -> PowerVals]
Zeros == [t \in op_time_vec |-> 0]  \* np.zeros(op_horizon)

TerminationConditions == {"optimal", "infeasible"}
SolverStatuses == {"ok", "warning"}
Results == [termination_condition : TerminationConditions, status : SolverStatuses]
NoResult == [termination_condition |-> "none", status |-> "none"]

\* Class of the entity of node n: the nodes of the district are buildings.
EntityKind(n) == "Building"

VARIABLES
    pc,               \* position in the running algorithm
    eps_primal,       \* parameter
    rho,              \* parameter
    max_iterations,   \* parameter
    iteration,        \* local iteration
    lambdas,          \* local lambdas
    r_norms,          \* local r_norms
    P_El_Schedules,   \* local P_El_Schedules: entity -> trajectory
    objective,        \* incentive coefficients of component "o" of each model
    P_El_vars,        \* values of entity.model.P_El_vars of each entity
    result,           \* result of the last solver call
    cursor,           \* node reached by the running for-loop
    P_El_Schedule,    \* committed schedule of each entity
    updated,          \* entities on which update_schedule was called, in order
    raised,           \* exception that ended the call, "none" if none
    exc_args,         \* arguments carried by the raised exception
    returned,         \* value returned to the caller, <<>> if none
    lambdas_start,    \* history: lambdas at the start of the current pass
    solved,           \* history: entities solved in the current pass
    solve_calls,      \* history: number of solver calls of the run
    residual_sum,     \* history: sum of the vectors r of the passes so far
    max_time,         \* parameter of central_optimization
    schedules,        \* named schedules of one entity: name -> values
    current_schedule, \* name of the schedule the entity reads as current
    calls,            \* history: the last two schedule operations
    before,           \* history: schedules and current name before the last copy
    mpi_size,         \* mpi_interface.mpi_size
    rank_id_range,    \* rank_id_range as computed by every rank in _iteration
    mpi_pc,           \* position of each rank in DualDecompositionMPI
    iterations,       \* results["iterations"][-1] of each rank, 0 if empty
    params_lambdas,   \* params["lambdas"] of each rank
    model_lambdas,    \* node.model.lambdas of each entity on its owner rank
    mpi_r_norms,      \* results["r_norms"] of each rank
    xcursor,          \* index j reached by rank 0 in the exchange loop
    channel,          \* point-to-point messages sent and not yet received
    bcast_box,        \* broadcast payloads sent by the root, per receiving rank
    lambda_hist,      \* history: the lambdas rank 0 held at the start of each iteration
    solved_iter,      \* history: the iteration in which each entity was last solved
    p_el_schedules,   \* local p_el_schedules of each rank other than 0
    post_cursor,      \* index i reached by each rank in the loop of _postsolve
    entity_schedules, \* local entity_schedules of each rank in _postsolve
    mpi_schedule,     \* entity.schedule of each entity object on each rank
    variable,         \* pyomo variable handed to extract_pyomo_value(s)
    var_type,         \* argument var_type of extract_pyomo_value(s)
    extracted,        \* outcome of the extraction call
    entity,           \* attributes of the entity object a method is called on
    args,             \* arguments of the call
    model,            \* components of the optimization model the call works on
    outcome           \* what the call returned or raised

params == <<eps_primal, rho, max_iterations>>

\* state used by central_optimization only
centralVars == <<max_time>>

\* state of the named schedules of an entity
schedVars == <<schedules, current_schedule, calls, before>>

\* state used by dual_decomposition only
ddVars == <<params, iteration, lambdas, r_norms, P_El_Schedules, objective,
            lambdas_start, solved, solve_calls, residual_sum>>

vars == <<pc, eps_primal, rho, max_iterations, iteration,
          lambdas, r_norms, P_El_Schedules, objective, P_El_vars, result,
          cursor, P_El_Schedule, updated, raised, exc_args, returned,
          lambdas_start, solved, solve_calls, residual_sum, max_time, schedules,
          current_schedule, calls, before, mpi_size, rank_id_range, mpi_pc,
          iterations,
          params_lambdas, model_lambdas, mpi_r_norms, xcursor, channel,
          bcast_box, lambda_hist, solved_iter, p_el_schedules, post_cursor,
          entity_schedules, mpi_schedule, variable, var_type, extracted,
          entity, args, model, outcome>>

\* state used by DualDecompositionMPI only
\* state of _postsolve of DualDecompositionMPI
postVars == <<post_cursor, entity_schedules, mpi_schedule>>

mpiVars == <<mpi_size, rank_id_range, mpi_pc, iterations, params_lambdas, model_lambdas,
             mpi_r_norms, xcursor, channel, bcast_box, lambda_hist,
             solved_iter, p_el_schedules, postVars>>

\* state of a call of extract_pyomo_value / extract_pyomo_values
utilVars == <<variable, var_type, extracted>>

\* state of a method call on an entity object
entityVars == <<entity, args, model, outcome>>

\* state of the calls on single objects (utilities and entity classes)
unitVars == <<utilVars, entityVars>>

\* DualDecompositionMPI is not running
MpiIdle ==
    /\ mpi_size = 1
    /\ rank_id_range = <<>>
    /\ mpi_pc = <<>>
    /\ iterations = <<>>
    /\ params_lambdas = <<>>
    /\ model_lambdas = <<>>
    /\ mpi_r_norms = <<>>
    /\ xcursor = 1
    /\ channel = {}
    /\ bcast_box = <<>>
    /\ lambda_hist = <<>>
    /\ solved_iter = <<>>
    /\ p_el_schedules = <<>>
    /\ post_cursor = <<>>
    /\ entity_schedules = <<>>
    /\ mpi_schedule = <<>>

\* no variable has been handed to the extraction utilities
NoVariable == [indexed |-> FALSE, stale |-> FALSE, has_lb |-> FALSE, lb |-> 0,
               has_ub |-> FALSE, ub |-> 0, value |-> 0, domain |-> "Reals"]
NoOutcome == [kind |-> "none", value |-> 0]

NoEntity == [class |-> "none"]
NoArgs == [mode |-> "none"]
NoModel == {}

\* no method of an entity object is being called
EntityIdle ==
    /\ entity = NoEntity
    /\ args = NoArgs
    /\ model = NoModel
    /\ outcome = NoOutcome

\* no call on a single object is under way
UnitIdle ==
    /\ variable = NoVariable
    /\ var_type = "None"
    /\ extracted = NoOutcome
    /\ EntityIdle

\* Names of the schedules of an entity; "tmp" does not exist at first.
ScheduleNames == {"default", "Ref", "tmp"}
Missing == [t \in op_time_vec |-> -1]      \* stands for "no such schedule"
NoSchedules == [n \in ScheduleNames |-> Missing]
NoBefore == [schedules |-> NoSchedules, current |-> "default"]

\* ------------------------------------------------------------- helpers
Abs(x) == IF x < 0 THEN -x ELSE x

Last(s) == s[Len(s)]

\* the limit test taken one pass too late
LimitExceededLate(it, limit) == it > limit + 1

\* the loop goes on while the norm is at or above the tolerance
NotConvergedNonStrict(norms, eps) == Last(norms) >= eps

\* while (r_norms[-1]) > eps_primal
NotConverged(norms, eps) == Last(norms) > eps

\* the counter is advanced twice
NextIterationTwice(it) == it + 2

\* iteration += 1
NextIteration(it) == it + 1

\* the limit is not tested in the first pass
LimitExceededAfterFirst(it, limit) == it > 1 /\ it > limit

\* if iteration > max_iterations
LimitExceeded(it, limit) == it > limit

\* only the termination condition is looked at
IsNonoptimalNoStatus(res) == res.termination_condition # "optimal"

\* result.solver.termination_condition != optimal or result.solver.status != ok
IsNonoptimal(res) ==
    res.termination_condition # "optimal" \/ res.status # "ok"

\* isinstance(entity, (Building, Photovoltaic, WindEnergyConverter))
IsOptimized(k) == k \in {"Building", "Photovoltaic", "WindEnergyConverter"}

\* the objective keeps the coefficients it was first built with
NodeIncentiveStale(lam) == [t \in op_time_vec |-> 0]

\* pyomo.sum_product(lambdas, P_El_vars): coefficient of P_El_vars[t] is lambdas[t]
NodeIncentive(lam) == [t \in op_time_vec |-> lam[t]]

\* the sign of the aggregator's incentive is not inverted
AggregatorIncentiveSameSign(lam) == [t \in op_time_vec |-> lam[t]]

\* pyomo.sum_product(-lambdas, P_El_vars)
AggregatorIncentive(lam) == [t \in op_time_vec |-> -lam[t]]

\* for node_id in nodes.keys(): acc += c * P_El_Schedules[node_id]
RECURSIVE AddNodes(_, _, _, _)
AddNodes(acc, c, P, n) ==
    IF n > NumNodes THEN acc
    ELSE AddNodes([t \in op_time_vec |-> acc[t] + c * P[n][t]], c, P, n + 1)

\* the district's trajectory is added instead of subtracted
IncentiveUpdateAdds(lam, c, P) ==
    AddNodes([t \in op_time_vec |-> lam[t] + c * P[0][t]], c, P, 1)

\* the step is taken without the step size rho
IncentiveUpdateUnscaled(lam, c, P) ==
    AddNodes([t \in op_time_vec |-> lam[t] - P[0][t]], 1, P, 1)

\* lambdas -= rho * P_El_Schedules[0]; then lambdas += rho * P_El_Schedules[node]
IncentiveUpdate(lam, c, P) ==
    AddNodes([t \in op_time_vec |-> lam[t] - c * P[0][t]], c, P, 1)

\* the district's trajectory is left out of the residual
ResidualNodesOnly(P) ==
    AddNodes(Zeros, 1, P, 1)

\* r = -P_El_Schedules[0]; then r += P_El_Schedules[node]
Residual(P) ==
    AddNodes([t \in op_time_vec |-> -P[0][t]], 1, P, 1)

\* the scan compares r[t] itself, without abs
RECURSIVE NormScanSigned(_, _, _)
NormScanSigned(r, t, cur) ==
    IF t >= Horizon THEN cur
    ELSE NormScanSigned(r, t + 1, IF r[t] > cur THEN r[t] ELSE cur)

\* for t in op_time_vec: if abs(r[t]) > r_norms[-1]: r_norms[-1] = abs(r[t])
RECURSIVE NormScan(_, _, _)
NormScan(r, t, cur) ==
    IF t >= Horizon THEN cur
    ELSE NormScan(r, t + 1, IF Abs(r[t]) > cur THEN Abs(r[t]) ELSE cur)

ResidualNorm(P) == NormScan(Residual(P), 0, 0)

\* ElectricalEntity.update_schedule: the values of the model variables become
\* the entity's schedule
UpdateSchedule(sched, values, e) == [sched EXCEPT ![e] = values[e]]

\* ------------------------------------------------------------- Init
Init ==
    /\ pc = "while"
    /\ eps_primal \in 0 .. MaxEps
    /\ rho \in 1 .. MaxRho
    /\ max_iterations \in 0 .. MaxIterCap
    /\ iteration = 0
    /\ lambdas = Zeros
    /\ r_norms = <<Inf>>
    /\ P_El_Schedules = [e \in Entities |-> Zeros]
    /\ objective = [e \in Entities |-> Zeros]
    /\ P_El_vars = [e \in Entities |-> Zeros]
    /\ result = NoResult
    /\ cursor = 1
    /\ P_El_Schedule = [e \in Entities |-> Zeros]
    /\ updated = <<>>
    /\ raised = "none"
    /\ exc_args = <<>>
    /\ returned = <<>>
    /\ lambdas_start = Zeros
    /\ solved = {}
    /\ solve_calls = 0
    /\ residual_sum = Zeros
    /\ max_time = "None"
    /\ schedules = NoSchedules
    /\ current_schedule = "default"
    /\ calls = <<>>
    /\ before = NoBefore
    /\ MpiIdle
    /\ UnitIdle

\* ------------------------------------------------------------- actions
\* while r_norms[-1] > eps_primal: iteration += 1, limit not exceeded
BeginIteration ==
    /\ pc = "while"
    /\ NotConverged(r_norms, eps_primal)
    /\ ~LimitExceeded(NextIteration(iteration), max_iterations)
    /\ iteration' = NextIteration(iteration)
    /\ pc' = "nodes"
    /\ cursor' = 1
    /\ lambdas_start' = lambdas
    /\ solved' = {}
    /\ UNCHANGED <<centralVars, schedVars, mpiVars, unitVars, residual_sum>>
    /\ UNCHANGED <<params, lambdas, r_norms, P_El_Schedules, objective,
                   P_El_vars, result, P_El_Schedule, updated, raised,
                   exc_args, returned, solve_calls>>

\* while r_norms[-1] > eps_primal: iteration += 1; raise MaxIterationError
RaiseMaxIteration ==
    /\ pc = "while"
    /\ NotConverged(r_norms, eps_primal)
    /\ LimitExceeded(NextIteration(iteration), max_iterations)
    /\ iteration' = NextIteration(iteration)
    /\ pc' = "raised"
    /\ raised' = "MaxIterationError"
    /\ exc_args' = <<"Iteration Limit exceeded.">>
    /\ UNCHANGED <<centralVars, schedVars, mpiVars, unitVars, residual_sum>>
    /\ UNCHANGED <<params, lambdas, r_norms, P_El_Schedules, objective,
                   P_El_vars, result, cursor, P_El_Schedule, updated,
                   returned, lambdas_start, solved, solve_calls>>

\* the while condition is false: leave the loop
EndLoop ==
    /\ pc = "while"
    /\ ~NotConverged(r_norms, eps_primal)
    /\ pc' = "update_district"
    /\ UNCHANGED <<centralVars, schedVars, mpiVars, unitVars, residual_sum>>
    /\ UNCHANGED <<params, iteration, lambdas, r_norms, P_El_Schedules,
                   objective, P_El_vars, result, cursor, P_El_Schedule,
                   updated, raised, exc_args, returned, lambdas_start,
                   solved, solve_calls>>

\* one pass of "for node_id, node in nodes.items()" of step 1
OptimizeNode ==
    /\ pc = "nodes"
    /\ cursor <= NumNodes
    /\ IF ~IsOptimized(EntityKind(cursor))
       THEN /\ cursor' = cursor + 1
            /\ pc' = pc
            /\ UNCHANGED <<objective, P_El_vars, result, P_El_Schedules,
                           raised, exc_args, solved, solve_calls>>
       ELSE \E res \in Results, values \in Vec :
            /\ objective' = [objective EXCEPT ![cursor] = NodeIncentive(lambdas)]
            /\ result' = res
            /\ P_El_vars' = [P_El_vars EXCEPT ![cursor] = values]
            /\ solve_calls' = solve_calls + 1
            /\ IF IsNonoptimal(res)
               THEN /\ pc' = "raised"
                    /\ raised' = "NonoptimalError"
                    /\ exc_args' = <<"Could not retrieve schedule from model.">>
                    /\ UNCHANGED <<P_El_Schedules, cursor, solved>>
               ELSE /\ P_El_Schedules' = [P_El_Schedules EXCEPT ![cursor] = values]
                    /\ solved' = solved \cup {cursor}
                    /\ cursor' = cursor + 1
                    /\ pc' = pc
                    /\ UNCHANGED <<raised, exc_args>>
    /\ UNCHANGED <<centralVars, schedVars, mpiVars, unitVars, residual_sum>>
    /\ UNCHANGED <<params, iteration, lambdas, r_norms, P_El_Schedule,
                   updated, returned, lambdas_start>>

\* step 2: optimize aggregator
OptimizeAggregator ==
    /\ pc = "nodes"
    /\ cursor > NumNodes
    /\ \E res \in Results, values \in Vec :
        /\ objective' = [objective EXCEPT ![0] = AggregatorIncentive(lambdas)]
        /\ result' = res
        /\ P_El_vars' = [P_El_vars EXCEPT ![0] = values]
        /\ solve_calls' = solve_calls + 1
        /\ IF IsNonoptimal(res)
           THEN /\ pc' = "raised"
                /\ raised' = "NonoptimalError"
                /\ exc_args' = <<"Could not retrieve schedule from model.">>
                /\ UNCHANGED <<P_El_Schedules, solved>>
           ELSE /\ P_El_Schedules' = [P_El_Schedules EXCEPT ![0] = values]
                /\ solved' = solved \cup {0}
                /\ pc' = "incentive"
                /\ UNCHANGED <<raised, exc_args>>
    /\ UNCHANGED <<centralVars, schedVars, mpiVars, unitVars, residual_sum>>
    /\ UNCHANGED <<params, iteration, lambdas, r_norms, cursor, P_El_Schedule,
                   updated, returned, lambdas_start>>

\* step 3: incentive update
UpdateIncentive ==
    /\ pc = "incentive"
    /\ lambdas' = IncentiveUpdate(lambdas, rho, P_El_Schedules)
    /\ pc' = "residual"
    /\ UNCHANGED <<centralVars, schedVars, mpiVars, unitVars, residual_sum>>
    /\ UNCHANGED <<params, iteration, r_norms, P_El_Schedules, objective,
                   P_El_vars, result, cursor, P_El_Schedule, updated, raised,
                   exc_args, returned, lambdas_start, solved, solve_calls>>

\* calculate parameters for stopping criteria
AppendResidualNorm ==
    /\ pc = "residual"
    /\ r_norms' = Append(r_norms, ResidualNorm(P_El_Schedules))
    /\ residual_sum' = [t \in op_time_vec |->
                            residual_sum[t] + Residual(P_El_Schedules)[t]]
    /\ pc' = "while"
    /\ UNCHANGED <<centralVars, schedVars, mpiVars, unitVars>>
    /\ UNCHANGED <<params, iteration, lambdas, P_El_Schedules, objective,
                   P_El_vars, result, cursor, P_El_Schedule, updated, raised,
                   exc_args, returned, lambdas_start, solved, solve_calls>>

\* city_district.update_schedule()
UpdateDistrictSchedule ==
    /\ pc = "update_district"
    /\ P_El_Schedule' = UpdateSchedule(P_El_Schedule, P_El_vars, 0)
    /\ updated' = Append(updated, 0)
    /\ cursor' = 1
    /\ pc' = "update_nodes"
    /\ UNCHANGED <<centralVars, schedVars, mpiVars, unitVars, residual_sum>>
    /\ UNCHANGED <<params, iteration, lambdas, r_norms, P_El_Schedules,
                   objective, P_El_vars, result, raised, exc_args, returned,
                   lambdas_start, solved, solve_calls>>

\* one pass of the final "for node_id, node in nodes.items()"
UpdateNodeSchedule ==
    /\ pc = "update_nodes"
    /\ cursor <= NumNodes
    /\ P_El_Schedule' = UpdateSchedule(P_El_Schedule, P_El_vars, cursor)
    /\ updated' = Append(updated, cursor)
    /\ cursor' = cursor + 1
    /\ UNCHANGED <<centralVars, schedVars, mpiVars, unitVars, residual_sum>>
    /\ UNCHANGED <<params, pc, iteration, lambdas, r_norms, P_El_Schedules,
                   objective, P_El_vars, result, raised, exc_args, returned,
                   lambdas_start, solved, solve_calls>>

\* return iteration, r_norms, lambdas
Return ==
    /\ pc = "update_nodes"
    /\ cursor > NumNodes
    /\ returned' = <<iteration, r_norms, lambdas>>
    /\ pc' = "returned"
    /\ UNCHANGED <<centralVars, schedVars, mpiVars, unitVars, residual_sum>>
    /\ UNCHANGED <<params, iteration, lambdas, r_norms, P_El_Schedules,
                   objective, P_El_vars, result, cursor, P_El_Schedule,
                   updated, raised, exc_args, lambdas_start, solved,
                   solve_calls>>

Next ==
    \/ BeginIteration
    \/ RaiseMaxIteration
    \/ EndLoop
    \/ OptimizeNode
    \/ OptimizeAggregator
    \/ UpdateIncentive
    \/ AppendResidualNorm
    \/ UpdateDistrictSchedule
    \/ UpdateNodeSchedule
    \/ Return

Spec == Init /\ [][Next]_vars

\* the function keeps running until it returns or raises: every statement,
\* a solver call included, comes back
SpecLive == Init /\ [][Next]_vars /\ WF_vars(Next)

\* ------------------------------------------------- central_optimization
\* Values the district variable takes in the single central model.
DistrictVec == [op_time_vec -> 0 .. (NumNodes * PowerMax)]

\* sum over the nodes of their value at t
RECURSIVE SumNodes(_, _, _)
SumNodes(P, t, n) ==
    IF n > NumNodes THEN 0 ELSE P[n][t] + SumNodes(P, t, n + 1)

\* p_el_couple_rule: P_El_vars[t] of the district equals the sum of the nodes'
Coupled(P) == \A t \in op_time_vec : P[0][t] = SumNodes(P, t, 1)

\* outcomes of the single solver call; the time limit can only be hit if set
CentralResults(limit) ==
    {[termination_condition |-> "optimal", status |-> "ok"],
     [termination_condition |-> "infeasible", status |-> "warning"]}
    \cup (IF limit = "None" THEN {}
          ELSE {[termination_condition |-> "maxTimeLimit", status |-> "aborted"]})

InitCentral ==
    /\ pc = "central"
    /\ max_time \in {"None", "given"}
    /\ eps_primal = 0
    /\ rho = 1
    /\ max_iterations = 0
    /\ iteration = 0
    /\ lambdas = Zeros
    /\ r_norms = <<>>
    /\ P_El_Schedules = [e \in Entities |-> Zeros]
    /\ objective = [e \in Entities |-> Zeros]
    /\ P_El_vars = [e \in Entities |-> Zeros]
    /\ result = NoResult
    /\ cursor = 1
    /\ P_El_Schedule = [e \in Entities |-> Zeros]
    /\ updated = <<>>
    /\ raised = "none"
    /\ exc_args = <<>>
    /\ returned = <<>>
    /\ lambdas_start = Zeros
    /\ solved = {}
    /\ solve_calls = 0
    /\ residual_sum = Zeros
    /\ schedules = NoSchedules
    /\ current_schedule = "default"
    /\ calls = <<>>
    /\ before = NoBefore
    /\ MpiIdle
    /\ UnitIdle

\* model.optimize(): the status is not looked at; an optimal solution obeys
\* the coupling constraint, any other outcome leaves arbitrary values
CentralOptimize ==
    /\ pc = "central"
    /\ \E res \in CentralResults(max_time),
          values \in [Entities -> DistrictVec] :
        /\ \A n \in NodeIds : values[n] \in Vec
        /\ res.termination_condition = "optimal" => Coupled(values)
        /\ result' = res
        /\ P_El_vars' = values
    /\ solve_calls' = solve_calls + 1
    /\ cursor' = 1
    /\ pc' = "central_update_nodes"
    /\ UNCHANGED <<mpiVars, unitVars>>
    /\ UNCHANGED <<params, centralVars, schedVars, iteration, lambdas, r_norms,
                   P_El_Schedules, objective, lambdas_start, solved,
                   residual_sum, P_El_Schedule, updated, raised, exc_args,
                   returned>>

\* one pass of "for node in city_district.node.values(): entity.update_schedule()"
CentralUpdateNode ==
    /\ pc = "central_update_nodes"
    /\ cursor <= NumNodes
    /\ P_El_Schedule' = UpdateSchedule(P_El_Schedule, P_El_vars, cursor)
    /\ updated' = Append(updated, cursor)
    /\ cursor' = cursor + 1
    /\ UNCHANGED <<mpiVars, unitVars>>
    /\ UNCHANGED <<ddVars, centralVars, schedVars, pc, P_El_vars, result,
                   raised, exc_args, returned>>

\* city_district.update_schedule() and the end of the function
CentralUpdateDistrict ==
    /\ pc = "central_update_nodes"
    /\ cursor > NumNodes
    /\ P_El_Schedule' = UpdateSchedule(P_El_Schedule, P_El_vars, 0)
    /\ updated' = Append(updated, 0)
    /\ pc' = "central_returned"
    /\ UNCHANGED <<mpiVars, unitVars>>
    /\ UNCHANGED <<ddVars, centralVars, schedVars, cursor, P_El_vars, result,
                   raised, exc_args, returned>>

NextCentral ==
    \/ CentralOptimize
    \/ CentralUpdateNode
    \/ CentralUpdateDistrict

SpecCentral == InitCentral /\ [][NextCentral]_vars

\* ------------------------------------------------- named schedules
\* the copy goes the wrong way, from the destination to the source
CopyScheduleReversed(scheds, cur, dst, src) ==
    LET d == IF dst = "None" THEN cur ELSE dst
        s == IF src = "None" THEN cur ELSE src
    IN  [scheds EXCEPT ![s] = scheds[d]]

\* copy_schedule(dst, src): an omitted name is the current schedule, a
\* destination that does not exist yet is created, the values are copied
CopySchedule(scheds, cur, dst, src) ==
    LET d == IF dst = "None" THEN cur ELSE dst
        s == IF src = "None" THEN cur ELSE src
    IN  [scheds EXCEPT ![d] = scheds[s]]

\* load_schedule(name): the named schedule becomes the current one
LoadSchedule(cur, name) == name

\* entity.schedule: the values the entity reads as its current schedule
CurrentValues(scheds, cur) == scheds[cur]

InitSchedule ==
    /\ pc = "entity"
    /\ \E d \in Vec, r \in Vec :
        schedules = [n \in ScheduleNames |->
                        IF n = "default" THEN d ELSE IF n = "Ref" THEN r ELSE Missing]
    /\ current_schedule = "default"
    /\ calls = <<>>
    /\ before = NoBefore
    /\ MpiIdle
    /\ UnitIdle
    /\ max_time = "None"
    /\ eps_primal = 0
    /\ rho = 1
    /\ max_iterations = 0
    /\ iteration = 0
    /\ lambdas = Zeros
    /\ r_norms = <<>>
    /\ P_El_Schedules = [e \in Entities |-> Zeros]
    /\ objective = [e \in Entities |-> Zeros]
    /\ P_El_vars = [e \in Entities |-> Zeros]
    /\ result = NoResult
    /\ cursor = 1
    /\ P_El_Schedule = [e \in Entities |-> Zeros]
    /\ updated = <<>>
    /\ raised = "none"
    /\ exc_args = <<>>
    /\ returned = <<>>
    /\ lambdas_start = Zeros
    /\ solved = {}
    /\ solve_calls = 0
    /\ residual_sum = Zeros

algoVars == <<ddVars, centralVars, pc, P_El_vars, result, cursor,
              P_El_Schedule, updated, raised, exc_args, returned>>

\* the last two operations, the newest last
Remember(cs, c) == IF Len(cs) < 2 THEN Append(cs, c) ELSE <<cs[2], c>>

\* entity.copy_schedule(dst=..., src=...)
DoCopySchedule ==
    /\ pc = "entity"
    /\ \E dst \in ScheduleNames \cup {"None"}, src \in ScheduleNames \cup {"None"} :
        /\ dst # src                                    \* assert dst != src
        /\ LET s == IF src = "None" THEN current_schedule ELSE src
           IN  schedules[s] # Missing                   \* self.schedules[src] exists
        /\ schedules' = CopySchedule(schedules, current_schedule, dst, src)
        /\ calls' = Remember(calls, <<"copy_schedule", dst, src>>)
    /\ before' = [schedules |-> schedules, current |-> current_schedule]
    /\ UNCHANGED <<mpiVars, unitVars>>
    /\ UNCHANGED <<algoVars, current_schedule>>

\* entity.load_schedule(name)
DoLoadSchedule ==
    /\ pc = "entity"
    /\ \E name \in ScheduleNames :
        /\ schedules[name] # Missing
        /\ current_schedule' = LoadSchedule(current_schedule, name)
        /\ calls' = Remember(calls, <<"load_schedule", name, "None">>)
    /\ UNCHANGED <<mpiVars, unitVars>>
    /\ UNCHANGED <<algoVars, schedules, before>>

NextSchedule ==
    \/ DoCopySchedule
    \/ DoLoadSchedule

SpecSchedule == InitSchedule /\ [][NextSchedule]_vars


\* ------------------------------------------------- DualDecompositionMPI
NumEntities == NumNodes + 1         \* len(self.nodes): aggregator and nodes
Ranks == 0 .. (mpi_size - 1)

\* np.repeat(np.array([k, ..., last]), a)
RECURSIVE RepeatEach(_, _, _)
RepeatEach(k, last, a) ==
    IF k > last THEN <<>>
    ELSE [i \in 1 .. a |-> k] \o RepeatEach(k + 1, last, a)

\* the whole remainder goes to rank 1
AppendRemainderToFirst(b) == [i \in 1 .. b |-> 1]

\* for i in range(b): rank_id_range = np.append(rank_id_range, i + 1)
AppendRemainder(b) == [i \in 1 .. b |-> i]

RECURSIVE InsertSorted(_, _)
InsertSorted(x, seq) ==
    IF seq = <<>> THEN <<x>>
    ELSE IF x <= Head(seq) THEN <<x>> \o seq
    ELSE <<Head(seq)>> \o InsertSorted(x, Tail(seq))

\* np.sort(rank_id_range)
RECURSIVE SortRanks(_)
SortRanks(seq) ==
    IF seq = <<>> THEN <<>> ELSE InsertSorted(Head(seq), SortRanks(Tail(seq)))

\* rank_id_range: position i + 1 holds the rank that owns entity i
RankIdRange(size, n) ==
    SortRanks(
        IF size > n THEN [i \in 1 .. n |-> i - 1]
        ELSE IF size < n
        THEN IF size = 1 THEN [i \in 1 .. n |-> 0]
             ELSE LET a == (n - 1) \div (size - 1)
                      b == (n - 1) % (size - 1)
                  IN  <<0>> \o RepeatEach(1, size - 1, a) \o AppendRemainder(b)
        ELSE [i \in 1 .. n |-> i - 1])

\* rank_id_range[i]
Owner(i) == rank_id_range[i + 1]

\* entities whose subproblem rank r sets up and solves
OwnedBy(r) == {i \in Entities : Owner(i) = r}

\* the tag leaves out the entity index
TagOfIteration(it, j) == it * NumEntities

\* tag=int(results["iterations"][-1]) * len(self.nodes) + j
Tag(it, j) == it * NumEntities + j

\* the incentive term in every time step is the same for all entities
MpiObjectiveIncentiveSameSign(i, lam) == [t \in op_time_vec |-> lam[t]]

\* _add_objective: the incentive term of entity i with node.model.lambdas = lam
MpiObjectiveIncentive(i, lam) ==
    [t \in op_time_vec |-> IF i = 0 THEN 0 - lam[t] ELSE lam[t]]

\* IterationAlgorithm._iteration: append the next iteration number
CountIteration(it) == it + 1

\* np.sum(p_el_schedules[1:], axis=0)[t]
RECURSIVE SumRows(_, _, _)
SumRows(P, t, i) ==
    IF i > NumNodes THEN 0 ELSE P[i][t] + SumRows(P, t, i + 1)

\* lambdas -= rho * p_el_schedules[0]; lambdas += rho * np.sum(p_el_schedules[1:])
MpiIncentiveUpdate(lam, c, P) ==
    [t \in op_time_vec |-> (lam[t] - c * P[0][t]) + c * SumRows(P, t, 1)]

\* r -= p_el_schedules[0]; r += np.sum(p_el_schedules[1:], axis=0)
MpiResidual(P) ==
    [t \in op_time_vec |-> (0 - P[0][t]) + SumRows(P, t, 1)]

\* np.linalg.norm(r, np.inf)
RECURSIVE MaxAbs(_, _)
MaxAbs(r, t) ==
    IF t >= Horizon THEN 0
    ELSE LET rest == MaxAbs(r, t + 1)
         IN  IF Abs(r[t]) > rest THEN Abs(r[t]) ELSE rest

\* np.empty / None: a row or entry that has not been given a value
Unset == [t \in op_time_vec |-> -1]

\* state of every rank after __init__ and _presolve, for a given mpi_size
MpiStart ==
    /\ pc = "mpi"
    /\ rank_id_range = RankIdRange(mpi_size, NumEntities)
    /\ eps_primal \in 0 .. MaxEps
    /\ rho = MaxRho
    /\ max_iterations \in 0 .. MaxIterCap
    /\ mpi_pc = [r \in Ranks |-> "loop"]
    /\ iterations = [r \in Ranks |-> 0]
    /\ params_lambdas = [r \in Ranks |-> Zeros]
    /\ model_lambdas = [i \in Entities |-> Zeros]
    /\ mpi_r_norms = [r \in Ranks |-> <<>>]
    /\ xcursor = 1
    /\ channel = {}
    /\ bcast_box = [r \in Ranks |-> <<>>]
    /\ lambda_hist = <<Zeros>>
    /\ solved_iter = [i \in Entities |-> 0]
    /\ p_el_schedules = [r \in Ranks \ {0} |-> [i \in Entities |-> Unset]]
    /\ post_cursor = [r \in Ranks |-> 0]
    /\ entity_schedules = [r \in Ranks |-> [i \in Entities |-> Unset]]
    /\ mpi_schedule = [r \in Ranks |-> [i \in Entities |-> Zeros]]
    /\ P_El_Schedules = [e \in Entities |-> Zeros]
    /\ P_El_vars = [e \in Entities |-> Zeros]
    /\ iteration = 0
    /\ lambdas = Zeros
    /\ r_norms = <<>>
    /\ objective = [e \in Entities |-> Zeros]
    /\ result = NoResult
    /\ cursor = 1
    /\ P_El_Schedule = [e \in Entities |-> Zeros]
    /\ updated = <<>>
    /\ raised = "none"
    /\ exc_args = <<>>
    /\ returned = <<>>
    /\ lambdas_start = Zeros
    /\ solved = {}
    /\ solve_calls = 0
    /\ residual_sum = Zeros
    /\ max_time = "None"
    /\ schedules = NoSchedules
    /\ current_schedule = "default"
    /\ calls = <<>>
    /\ before = NoBefore
    /\ UnitIdle

InitMPI ==
    /\ mpi_size \in 1 .. MaxMpiSize
    /\ MpiStart

\* everything the MPI class does not touch
nonMpiVars == <<pc, params, iteration, lambdas, r_norms, result, residual_sum,
                cursor, P_El_Schedule, updated, raised, exc_args, returned,
                lambdas_start, solved, solve_calls, centralVars, schedVars,
                unitVars>>

\* the limit test of the iteration count fails on rank r
MpiRaiseMaxIteration(r) ==
    /\ pc = "mpi"
    /\ mpi_pc[r] = "loop"
    /\ LimitExceeded(CountIteration(iterations[r]), max_iterations)
    /\ iterations' = [iterations EXCEPT ![r] = CountIteration(iterations[r])]
    /\ mpi_pc' = [mpi_pc EXCEPT ![r] = "MaxIterationError"]
    /\ UNCHANGED <<nonMpiVars, postVars, mpi_size, rank_id_range, params_lambdas,
                   model_lambdas, mpi_r_norms, xcursor, channel, bcast_box,
                   lambda_hist, solved_iter, P_El_Schedules, P_El_vars,
                   objective, p_el_schedules>>

\* the rows are sent as they were before this iteration's extraction
SendsBeforeExtraction(r, it, values) ==
    IF r = 0 \/ mpi_size = 1 THEN {}
    ELSE {[source |-> r, dest |-> 0, tag |-> Tag(it, j), data |-> P_El_vars[j],
           entity |-> j, iteration |-> it] :
            j \in {i \in 1 .. NumNodes : Owner(i) = r}}

\* messages rank r sends in "for j in range(1, len(self.nodes))"; entity and
\* iteration record what the data is (history, not part of the message)
Sends(r, it, values) ==
    IF r = 0 \/ mpi_size = 1 THEN {}
    ELSE {[source |-> r, dest |-> 0, tag |-> Tag(it, j), data |-> values[j],
           entity |-> j, iteration |-> it] :
            j \in {i \in 1 .. NumNodes : Owner(i) = r}}

\* _iteration on rank r up to its first blocking call: the iteration is
\* counted; a rank beyond the node list returns at once; any other rank
\* writes its lambdas into the models of its entities, solves them, and then
\* rank 0 extracts the aggregator's trajectory while the other ranks send
\* the trajectories of their entities to rank 0
MpiSolve(r) ==
    /\ pc = "mpi"
    /\ mpi_pc[r] = "loop"
    /\ ~LimitExceeded(CountIteration(iterations[r]), max_iterations)
    /\ iterations' = [iterations EXCEPT ![r] = CountIteration(iterations[r])]
    /\ IF mpi_size > NumEntities /\ r > NumEntities
       THEN /\ mpi_r_norms' = [mpi_r_norms EXCEPT ![r] = Append(@, Zeros)]
            /\ mpi_pc' = [mpi_pc EXCEPT ![r] = "returned_early"]
            /\ UNCHANGED <<P_El_vars, P_El_Schedules, model_lambdas,
                           solved_iter, xcursor, channel, objective,
                           p_el_schedules>>
       ELSE /\ \E values \in [OwnedBy(r) -> Vec] :
                /\ P_El_vars' = [i \in Entities |->
                                    IF i \in OwnedBy(r) THEN values[i]
                                    ELSE P_El_vars[i]]
                /\ P_El_Schedules' = IF r = 0
                                     THEN [P_El_Schedules EXCEPT ![0] = values[0]]
                                     ELSE P_El_Schedules
                /\ p_el_schedules' =
                        IF r = 0 THEN p_el_schedules
                        ELSE [p_el_schedules EXCEPT ![r] =
                                [i \in Entities |->
                                    IF i \in OwnedBy(r) THEN values[i] ELSE Unset]]
                /\ channel' = channel \cup Sends(r, iterations'[r], values)
            /\ model_lambdas' = [i \in Entities |->
                                    IF i \in OwnedBy(r) THEN params_lambdas[r]
                                    ELSE model_lambdas[i]]
            /\ objective' = [i \in Entities |->
                                    IF i \in OwnedBy(r)
                                    THEN MpiObjectiveIncentive(i, params_lambdas[r])
                                    ELSE objective[i]]
            /\ solved_iter' = [i \in Entities |->
                                    IF i \in OwnedBy(r) THEN iterations'[r]
                                    ELSE solved_iter[i]]
            /\ xcursor' = IF r = 0 THEN 1 ELSE xcursor
            /\ mpi_pc' = [mpi_pc EXCEPT ![r] = IF r = 0 THEN "exchange" ELSE "bcast"]
            /\ UNCHANGED mpi_r_norms
    /\ UNCHANGED <<nonMpiVars, postVars, mpi_size, rank_id_range, params_lambdas,
                   bcast_box, lambda_hist>>

\* one pass of "for j in range(1, len(self.nodes))" on rank 0
MpiReceive ==
    /\ pc = "mpi"
    /\ mpi_pc[0] = "exchange"
    /\ xcursor <= NumNodes
    /\ LET j == xcursor
       IN  IF mpi_size > 1
           THEN \E m \in channel :
                    /\ m.source = Owner(j)
                    /\ m.dest = 0
                    /\ m.tag = Tag(iterations[0], j)
                    /\ P_El_Schedules' = [P_El_Schedules EXCEPT ![j] = m.data]
                    /\ channel' = channel \ {m}
           ELSE /\ P_El_Schedules' = [P_El_Schedules EXCEPT ![j] = P_El_vars[j]]
                /\ UNCHANGED channel
    /\ xcursor' = xcursor + 1
    /\ UNCHANGED <<nonMpiVars, postVars, mpi_size, rank_id_range, mpi_pc, iterations,
                   params_lambdas, model_lambdas, mpi_r_norms, bcast_box,
                   lambda_hist, solved_iter, P_El_vars, objective,
                   p_el_schedules>>

\* _is_last_iteration: results["r_norms"][-1] <= self.eps_primal
IsLastIteration(norms, eps) == Last(norms) <= eps

\* rank 0 after the exchange: incentive signal update, both broadcasts as
\* root, stopping data, and the test of the stopping criterion
MpiRootUpdate ==
    /\ pc = "mpi"
    /\ mpi_pc[0] = "exchange"
    /\ xcursor > NumNodes
    /\ LET new == MpiIncentiveUpdate(params_lambdas[0], rho, P_El_Schedules)
           res == MpiResidual(P_El_Schedules)
           norms == Append(mpi_r_norms[0], MaxAbs(res, 0))
       IN  /\ params_lambdas' = [params_lambdas EXCEPT ![0] = new]
           /\ bcast_box' = [q \in Ranks |->
                              IF q # 0 /\ mpi_size > 1
                              THEN Append(bcast_box[q], <<new, res>>)
                              ELSE bcast_box[q]]
           /\ mpi_r_norms' = [mpi_r_norms EXCEPT ![0] = norms]
           /\ lambda_hist' = Append(lambda_hist, new)
           /\ mpi_pc' = [mpi_pc EXCEPT ![0] =
                           IF IsLastIteration(norms, eps_primal)
                           THEN "postsolve" ELSE "loop"]
    /\ UNCHANGED <<nonMpiVars, postVars, mpi_size, rank_id_range, iterations,
                   model_lambdas, xcursor, channel, solved_iter,
                   P_El_Schedules, P_El_vars, objective, p_el_schedules>>

\* a rank other than 0 after its sends: both broadcasts as receiver, stopping
\* data, and the test of the stopping criterion
MpiReceiveBroadcast(r) ==
    /\ pc = "mpi"
    /\ r # 0
    /\ mpi_pc[r] = "bcast"
    /\ bcast_box[r] # <<>>
    /\ LET new == Head(bcast_box[r])[1]
           res == Head(bcast_box[r])[2]
           norms == Append(mpi_r_norms[r], MaxAbs(res, 0))
       IN  /\ params_lambdas' = [params_lambdas EXCEPT ![r] = new]
           /\ mpi_r_norms' = [mpi_r_norms EXCEPT ![r] = norms]
           /\ mpi_pc' = [mpi_pc EXCEPT ![r] =
                           IF IsLastIteration(norms, eps_primal)
                           THEN "postsolve" ELSE "loop"]
    /\ bcast_box' = [bcast_box EXCEPT ![r] = Tail(@)]
    /\ UNCHANGED <<nonMpiVars, postVars, mpi_size, rank_id_range, iterations,
                   model_lambdas, xcursor, channel, lambda_hist, solved_iter,
                   P_El_Schedules, P_El_vars, objective, p_el_schedules>>

NextMPI ==
    \/ \E r \in Ranks : MpiRaiseMaxIteration(r)
    \/ \E r \in Ranks : MpiSolve(r)
    \/ MpiReceive
    \/ MpiRootUpdate
    \/ \E r \in Ranks : MpiReceiveBroadcast(r)

SpecMPI == InitMPI /\ [][NextMPI]_vars

\* ------------------------------------------------- DualDecompositionMPI, whole run
\* the run of the MPI class on up to MaxRanks processes: the loop of
\* iterations on every rank, and _postsolve on the ranks that leave the loop
InitMPIRun ==
    /\ mpi_size \in 1 .. MaxRanks
    /\ MpiStart

\* bool(np.zeros(op_horizon) <= eps_primal) raises for more than one element
TruthValueRaises == Horizon > 1

\* the stopping test on a rank that left _iteration through the early
\* return, whose last r_norms entry is the vector np.zeros(op_horizon)
MpiEarlyTest(r) ==
    /\ pc = "mpi"
    /\ mpi_pc[r] = "returned_early"
    /\ mpi_pc' = [mpi_pc EXCEPT ![r] =
                    IF TruthValueRaises THEN "ValueError"
                    ELSE IF Last(mpi_r_norms[r])[0] <= eps_primal
                         THEN "postsolve" ELSE "loop"]
    /\ UNCHANGED <<nonMpiVars, postVars, mpi_size, rank_id_range, iterations,
                   params_lambdas, model_lambdas, mpi_r_norms, xcursor, channel,
                   bcast_box, lambda_hist, solved_iter, P_El_Schedules,
                   P_El_vars, objective, p_el_schedules>>

\* everything _postsolve leaves alone
postRest == <<nonMpiVars, mpi_size, rank_id_range, iterations, params_lambdas,
              model_lambdas, mpi_r_norms, xcursor, bcast_box, lambda_hist,
              solved_iter, P_El_Schedules, P_El_vars, objective,
              p_el_schedules>>

\* _postsolve with a single process: the base class extracts the schedules
MpiPostsolveSingle ==
    /\ pc = "mpi"
    /\ mpi_size = 1
    /\ mpi_pc[0] = "postsolve"
    /\ mpi_schedule' = [mpi_schedule EXCEPT ![0] =
                          [i \in Entities |-> UpdateSchedule(@, P_El_vars, i)[i]]]
    /\ mpi_pc' = [mpi_pc EXCEPT ![0] = "done"]
    /\ UNCHANGED <<postRest, channel, post_cursor, entity_schedules>>

\* isend(entity.schedule, dest=j, tag=i) for every rank j other than r
ScheduleSends(r, i, sched) ==
    {[source |-> r, dest |-> j, tag |-> i, data |-> sched,
      entity |-> i, iteration |-> 0] : j \in Ranks \ {r}}

\* one pass of the first loop of _postsolve on the rank that owns entity i
MpiPostsolveSend(r) ==
    /\ pc = "mpi"
    /\ mpi_size > 1
    /\ mpi_pc[r] = "postsolve"
    /\ post_cursor[r] < NumEntities
    /\ LET i == post_cursor[r]
           sched == UpdateSchedule(mpi_schedule[r], P_El_vars, i)
       IN  /\ Owner(i) = r
           /\ mpi_schedule' = [mpi_schedule EXCEPT ![r] = sched]
           /\ entity_schedules' = [entity_schedules EXCEPT ![r][i] = sched[i]]
           /\ channel' = channel \cup ScheduleSends(r, i, sched[i])
    /\ post_cursor' = [post_cursor EXCEPT ![r] = @ + 1]
    /\ UNCHANGED <<postRest, mpi_pc>>

\* one pass of the first loop of _postsolve on a rank that does not own i
MpiPostsolveRecv(r) ==
    /\ pc = "mpi"
    /\ mpi_size > 1
    /\ mpi_pc[r] = "postsolve"
    /\ post_cursor[r] < NumEntities
    /\ LET i == post_cursor[r]
       IN  /\ Owner(i) # r
           /\ \E m \in channel :
                /\ m.source = Owner(i)
                /\ m.dest = r
                /\ m.tag = i
                /\ entity_schedules' = [entity_schedules EXCEPT ![r][i] = m.data]
                /\ channel' = channel \ {m}
    /\ post_cursor' = [post_cursor EXCEPT ![r] = @ + 1]
    /\ UNCHANGED <<postRest, mpi_pc, mpi_schedule>>

\* load_schedule_from_dict: the entity takes the given schedule as its own
LoadScheduleFromDict(sched, given, i) == [sched EXCEPT ![i] = given[i]]

RECURSIVE LoadAll(_, _, _)
LoadAll(sched, given, i) ==
    IF i >= NumEntities THEN sched
    ELSE LoadAll(LoadScheduleFromDict(sched, given, i), given, i + 1)

\* the second loop of _postsolve on rank r
MpiPostsolveLoad(r) ==
    /\ pc = "mpi"
    /\ mpi_size > 1
    /\ mpi_pc[r] = "postsolve"
    /\ post_cursor[r] = NumEntities
    /\ mpi_schedule' = [mpi_schedule EXCEPT ![r] =
                          LoadAll(@, entity_schedules[r], 0)]
    /\ mpi_pc' = [mpi_pc EXCEPT ![r] = "done"]
    /\ UNCHANGED <<postRest, channel, post_cursor, entity_schedules>>

NextMPIRun ==
    \/ \E r \in Ranks : MpiRaiseMaxIteration(r)
    \/ \E r \in Ranks : MpiSolve(r)
    \/ MpiReceive
    \/ MpiRootUpdate
    \/ \E r \in Ranks : MpiReceiveBroadcast(r)
    \/ \E r \in Ranks : MpiEarlyTest(r)
    \/ MpiPostsolveSingle
    \/ \E r \in Ranks : MpiPostsolveSend(r)
    \/ \E r \in Ranks : MpiPostsolveRecv(r)
    \/ \E r \in Ranks : MpiPostsolveLoad(r)

SpecMPIRun == InitMPIRun /\ [][NextMPIRun]_vars

\* ------------------------------------------------- both implementations
\* dual decomposition run either by the sequential function or by the MPI class
InitDD == Init \/ InitMPI

NextDD ==
    \/ BeginIteration
    \/ RaiseMaxIteration
    \/ EndLoop
    \/ OptimizeNode
    \/ OptimizeAggregator
    \/ UpdateIncentive
    \/ AppendResidualNorm
    \/ UpdateDistrictSchedule
    \/ UpdateNodeSchedule
    \/ Return
    \/ \E r \in Ranks : MpiRaiseMaxIteration(r)
    \/ \E r \in Ranks : MpiSolve(r)
    \/ MpiReceive
    \/ MpiRootUpdate
    \/ \E r \in Ranks : MpiReceiveBroadcast(r)

SpecDD == InitDD /\ [][NextDD]_vars

\* ------------------------------------------------- extract_pyomo_value(s)
\* Numbers of this section are counted in halves: 2 stands for 1.0.
BoundVals == (0 - MaxBound) .. MaxBound
Domains == {"Reals", "Integers", "Binary"}
VarTypes == {"None", "float", "int", "bool"}

\* pyomo variables: bounds may be absent, lb <= ub when both are present
PyomoVars ==
    {v \in [indexed : BOOLEAN, stale : BOOLEAN, has_lb : BOOLEAN, lb : BoundVals,
            has_ub : BOOLEAN, ub : BoundVals, value : BoundVals, domain : Domains] :
        /\ (~v.has_lb => v.lb = 0)
        /\ (~v.has_ub => v.ub = 0)
        /\ ((v.has_lb /\ v.has_ub) => v.lb <= v.ub)}

\* _known_domains
KnownDomains(dom) ==
    IF dom = "Reals" THEN "float"
    ELSE IF dom = "Integers" THEN "int"
    ELSE IF dom = "Binary" THEN "bool"
    ELSE "float"

\* np.ceil and np.floor on halves
Ceil(x) == x + (x % 2)
Floor(x) == x - (x % 2)

\* int(x): truncation towards zero
Trunc(x) == IF x >= 0 THEN Floor(x) ELSE Ceil(x)

\* t(value) for t in float, int, bool
Convert(t, x) ==
    IF t = "int" THEN Trunc(x)
    ELSE IF t = "bool" THEN (IF x # 0 THEN 2 ELSE 0)
    ELSE x

\* "if stale select closest feasible value to zero"
StaleValue(v) ==
    IF v.has_ub /\ v.ub < 0 THEN v.ub
    ELSE IF v.has_lb /\ v.lb > 0 THEN v.lb
    ELSE 0

\* the adjustment of the stale value to the type t
StaleTyped(t, x) ==
    IF t = "int" THEN (IF x > 0 THEN Ceil(x) ELSE IF x < 0 THEN Floor(x) ELSE x)
    ELSE IF t = "bool" THEN (IF x # 0 THEN 2 ELSE x)
    ELSE x

OutOfBounds(v, x) == (v.has_lb /\ v.lb > x) \/ (v.has_ub /\ v.ub < x)

Raise(name) == [kind |-> name, value |-> 0]
Returns(x) == [kind |-> "return", value |-> x]

\* extract_pyomo_value(variable, var_type): t is bound only when var_type is None
ExtractPyomoValue(v, vt) ==
    IF v.indexed THEN Raise("ValueError")
    ELSE IF vt # "None" THEN Raise("UnboundLocalError")
    ELSE LET t == KnownDomains(v.domain)
         IN  IF v.stale
             THEN LET x == StaleTyped(t, StaleValue(v))
                  IN  IF OutOfBounds(v, x) THEN Raise("SchedulingError")
                      ELSE Returns(Convert(t, x))
             ELSE LET x == Convert(t, v.value)
                  IN  IF OutOfBounds(v, x) THEN Raise("AssertionError")
                      ELSE Returns(x)

\* extract_pyomo_values(variable, var_type): an indexed container (here with
\* one element) is extracted element by element without var_type and stored
\* in an array of the requested or the domain's type
ExtractPyomoValues(v, vt) ==
    IF v.indexed
    THEN LET dtype == IF vt = "None" THEN KnownDomains(v.domain) ELSE vt
             elem == ExtractPyomoValue([v EXCEPT !.indexed = FALSE], "None")
         IN  IF elem.kind = "return" THEN Returns(Convert(dtype, elem.value))
             ELSE elem
    ELSE ExtractPyomoValue(v, vt)

\* no algorithm is running
AlgoIdle ==
    /\ eps_primal = 0
    /\ rho = 1
    /\ max_iterations = 0
    /\ iteration = 0
    /\ lambdas = Zeros
    /\ r_norms = <<>>
    /\ P_El_Schedules = [e \in Entities |-> Zeros]
    /\ objective = [e \in Entities |-> Zeros]
    /\ P_El_vars = [e \in Entities |-> Zeros]
    /\ result = NoResult
    /\ cursor = 1
    /\ P_El_Schedule = [e \in Entities |-> Zeros]
    /\ updated = <<>>
    /\ raised = "none"
    /\ exc_args = <<>>
    /\ returned = <<>>
    /\ lambdas_start = Zeros
    /\ solved = {}
    /\ solve_calls = 0
    /\ residual_sum = Zeros
    /\ max_time = "None"
    /\ schedules = NoSchedules
    /\ current_schedule = "default"
    /\ calls = <<>>
    /\ before = NoBefore
    /\ MpiIdle

InitExtract ==
    /\ pc = "extract"
    /\ variable \in PyomoVars
    /\ var_type \in VarTypes
    /\ extracted = NoOutcome
    /\ EntityIdle
    /\ AlgoIdle

\* a caller invokes extract_pyomo_value
CallExtractPyomoValue ==
    /\ pc = "extract"
    /\ extracted' = ExtractPyomoValue(variable, var_type)
    /\ pc' = "extracted"
    /\ UNCHANGED <<ddVars, centralVars, P_El_vars, result, cursor,
                   P_El_Schedule, updated, raised, exc_args, returned>>
    /\ UNCHANGED <<schedVars, mpiVars, variable, var_type, entityVars>>

\* a caller invokes extract_pyomo_values
CallExtractPyomoValues ==
    /\ pc = "extract"
    /\ extracted' = ExtractPyomoValues(variable, var_type)
    /\ pc' = "extracted_values"
    /\ UNCHANGED <<ddVars, centralVars, P_El_vars, result, cursor,
                   P_El_Schedule, updated, raised, exc_args, returned>>
    /\ UNCHANGED <<schedVars, mpiVars, variable, var_type, entityVars>>

NextExtract ==
    \/ CallExtractPyomoValue
    \/ CallExtractPyomoValues

SpecExtract == InitExtract /\ [][NextExtract]_vars

\* ------------------------------------------------- populate_model
Modes == {"convex", "integer", "quadratic", ""}
Classes == {"CityDistrict", "Battery", "Boiler", "Chiller"}

\* Battery(environment, e_el_max, p_el_max_charge, p_el_max_discharge, ...);
\* discharge is the argument as passed, given = FALSE when it is left out
\* (the pyomo class takes "is not None", the gurobi class takes "or")
Battery(api, e_el_max, p_el_max_charge, discharge, soc_init) ==
    [class |-> "Battery", api |-> api, p_th_nom |-> 0,
     e_el_max |-> e_el_max, soc_init |-> soc_init,
     p_el_max_charge |-> p_el_max_charge,
     p_el_max_discharge |->
        IF api = "pyomo"
        THEN (IF discharge.given THEN discharge.value ELSE p_el_max_charge)
        ELSE (IF discharge.given /\ discharge.value # 0 THEN discharge.value
              ELSE p_el_max_charge)]

\* Boiler(environment, p_th_nom), Chiller(environment, p_th_nom) and
\* CityDistrict(environment)
Device(class, p_th_nom) ==
    [class |-> class, api |-> "pyomo", p_th_nom |-> p_th_nom,
     e_el_max |-> 0, soc_init |-> 0, p_el_max_charge |-> 0,
     p_el_max_discharge |-> 0]

Discharges == {[given |-> FALSE, value |-> 0]} \cup
              {[given |-> TRUE, value |-> x] : x \in 0 .. MaxBound}

Batteries ==
    {Battery(api, MaxBound, c, dis, 1) :
        api \in {"pyomo", "gurobi"}, c \in 1 .. MaxBound, dis \in Discharges}

Devices == {Device(c, n) : c \in {"Boiler", "Chiller"}, n \in 1 .. MaxBound}
             \cup {Device("CityDistrict", 0)}

Component(name, lb, ub) == [name |-> name, lb |-> lb, ub |-> ub]
Constraint(name) == [name |-> name, lb |-> 0, ub |-> 0]

\* variable.setlb(v), variable.setub(v)
SetLb(m, name, v) == {IF c.name = name THEN [c EXCEPT !.lb = v] ELSE c : c \in m}
SetUb(m, name, v) == {IF c.name = name THEN [c EXCEPT !.ub = v] ELSE c : c \in m}

\* super().populate_model(model, mode): the power variables of the entity
ParentPopulate(e) ==
    IF e.class = "Boiler" THEN {Component("p_th_heat_vars", 0 - Inf, Inf)}
    ELSE IF e.class = "Chiller"
    THEN {Component("p_th_cool_vars", 0 - Inf, Inf), Component("p_el_vars", 0, Inf)}
    ELSE {Component("p_el_vars", 0, Inf)}

\* truth value of a Python string
Truthy(str) == str # ""

\* the test of the mode made by each class
ModeAccepted(e, mode) ==
    IF e.class \in {"Boiler", "Chiller"}
    THEN (mode = "convex") \/ Truthy("integer")
    ELSE mode \in {"convex", "integer"}

\* the bounds, variables and constraints a class adds on its own
OwnPopulate(e, mode, m) ==
    IF e.class = "CityDistrict" THEN SetLb(m, "p_el_vars", 0 - Inf)
    ELSE IF e.class = "Boiler"
    THEN SetUb(SetLb(m, "p_th_heat_vars", 0 - e.p_th_nom), "p_th_heat_vars", 0)
    ELSE IF e.class = "Chiller"
    THEN SetUb(SetLb(m, "p_th_cool_vars", 0 - e.p_th_nom), "p_th_cool_vars", 0)
            \cup {Constraint("cop"), Constraint("p_coupl_constr")}
    ELSE SetLb(m, "p_el_vars", 0 - Inf) \cup
         {Component("p_el_demand_vars", 0,
                    IF mode = "integer" THEN Inf ELSE e.p_el_max_charge),
          Component("p_el_supply_vars", 0,
                    IF mode = "integer" THEN Inf ELSE e.p_el_max_discharge),
          Component("e_el_vars", 0, e.e_el_max),
          Constraint("p_constr"), Constraint("e_constr"),
          Constraint("e_end_constr")} \cup
         (IF mode = "integer"
          THEN {Component("p_state_vars", 0, 1),
                Constraint("p_charge_integer_constr"),
                Constraint("p_discharge_integer_constr")}
          ELSE {})

\* self.activation_constr.apply(m, mode) of Boiler and Chiller: whether it
\* raises; what it does with a mode it does not know is not fixed here
ActivationRaises(e, mode) ==
    IF e.class \in {"Boiler", "Chiller"} /\ mode \notin {"convex", "integer"}
    THEN BOOLEAN ELSE {FALSE}

\* its constraints in integer mode
ActivationApply(e, mode) ==
    IF e.class \in {"Boiler", "Chiller"} /\ mode = "integer"
    THEN {Constraint("activation_constr")} ELSE {}

InitPopulate ==
    /\ pc = "populate"
    /\ entity \in Batteries \cup Devices
    /\ args \in [mode : Modes]
    /\ model = NoModel
    /\ outcome = NoOutcome
    /\ variable = NoVariable
    /\ var_type = "None"
    /\ extracted = NoOutcome
    /\ AlgoIdle

\* entity.populate_model(model, mode)
PopulateModel ==
    /\ pc = "populate"
    /\ pc' = "populated"
    /\ LET parent == ParentPopulate(entity)
       IN  IF ModeAccepted(entity, args.mode)
           THEN \E raises \in ActivationRaises(entity, args.mode) :
                    /\ model' = OwnPopulate(entity, args.mode, parent) \cup
                                (IF raises THEN {}
                                 ELSE ActivationApply(entity, args.mode))
                    /\ outcome' = IF raises THEN Raise("Error")
                                  ELSE Returns(0)
           ELSE /\ model' = parent
                /\ outcome' = Raise("ValueError")
    /\ UNCHANGED <<ddVars, centralVars, P_El_vars, result, cursor,
                   P_El_Schedule, updated, raised, exc_args, returned>>
    /\ UNCHANGED <<schedVars, mpiVars, utilVars, entity, args>>

NextPopulate == PopulateModel

SpecPopulate == InitPopulate /\ [][NextPopulate]_vars

\* ------------------------------------------------- populate_models
\* the names listed in the documentation of populate_models
DocumentedAlgorithms ==
    {"exchange-admm", "dual-decompostition", "stand-alone", "local", "central"}

\* names a caller may pass
AlgorithmNames == DocumentedAlgorithms \cup {"dual-decomposition", "admm"}

\* robustness: None or (protected time steps, deviation)
Robustness == {[given |-> FALSE, steps |-> 0, deviation |-> 0]} \cup
              [given : {TRUE}, steps : 0 .. Horizon, deviation : 0 .. 1]

\* node['entity'].populate_model(m, mode, robustness) of a building: whether
\* it raises, and what it adds
NodeRaises(mode) == mode \notin {"convex", "integer"}
NodePopulate(n, robustness) ==
    {Component("P_El_vars", 0 - Inf, Inf)} \cup
    (IF robustness.given THEN {Constraint("robust_constr")} ELSE {})

\* city_district.populate_model(m, mode)
DistrictRaises(mode) == ~ModeAccepted(Device("CityDistrict", 0), mode)
DistrictPopulate(mode) ==
    OwnPopulate(Device("CityDistrict", 0), mode,
                ParentPopulate(Device("CityDistrict", 0)))

\* models[0] of 'stand-alone', 'local' and 'central': one model for all
CentralModel(mode, robustness) ==
    UNION {NodePopulate(n, robustness) : n \in NodeIds}
        \cup DistrictPopulate(mode) \cup {Constraint("p_coupl_constr")}

\* populate_models(city_district, mode, algorithm, robustness): the mapping
\* it returns, or the error of the first populate_model that fails
PopulateModels(mode, algorithm, robustness) ==
    IF algorithm \in {"stand-alone", "local", "central"}
    THEN IF NumNodes > 0 /\ NodeRaises(mode) THEN Raise("ValueError")
         ELSE IF DistrictRaises(mode) THEN Raise("ValueError")
         ELSE Returns([k \in {0} |-> CentralModel(mode, robustness)])
    ELSE IF algorithm \in {"exchange-admm", "dual-decomposition"}
    THEN IF DistrictRaises(mode) THEN Raise("ValueError")
         ELSE IF NumNodes > 0 /\ NodeRaises(mode) THEN Raise("ValueError")
         ELSE Returns([k \in Entities |->
                        IF k = 0 THEN DistrictPopulate(mode)
                        ELSE NodePopulate(k, robustness)])
    ELSE Returns([k \in {} |-> {}])

InitModels ==
    /\ pc = "populate_models"
    /\ entity = Device("CityDistrict", 0)
    /\ args \in [mode : Modes, algorithm : AlgorithmNames, robustness : Robustness]
    /\ model = NoModel
    /\ outcome = NoOutcome
    /\ variable = NoVariable
    /\ var_type = "None"
    /\ extracted = NoOutcome
    /\ AlgoIdle

\* a caller invokes populate_models
CallPopulateModels ==
    /\ pc = "populate_models"
    /\ pc' = "models_populated"
    /\ outcome' = PopulateModels(args.mode, args.algorithm, args.robustness)
    /\ UNCHANGED <<ddVars, centralVars, P_El_vars, result, cursor,
                   P_El_Schedule, updated, raised, exc_args, returned>>
    /\ UNCHANGED <<schedVars, mpiVars, utilVars, entity, args, model>>

NextModels == CallPopulateModels

SpecModels == InitModels /\ [][NextModels]_vars

\* ------------------------------------------------- get_objective
\* An objective is a polynomial of the power variables: quad[t] is the
\* coefficient of p[t]*p[t], lin[t] the numerator and den the denominator of
\* the coefficient of p[t].
Objectives == {"price", "valley-filling", "peak-shaving"}
PriceVals == {0 - 1, 0, 1}
Coeffs == 0 .. MaxCoeff

Expression(quad, lin, den) == [quad |-> quad, lin |-> lin, den |-> den]

\* sum(abs(prices))
RECURSIVE SumAbs(_, _)
SumAbs(prices, t) ==
    IF t >= Horizon THEN 0 ELSE Abs(prices[t]) + SumAbs(prices, t + 1)

\* ElectricalEntity.get_objective(coeff) for 'peak-shaving'
ParentObjective(coeff) ==
    Expression([t \in op_time_vec |-> coeff], Zeros, 1)

\* CityDistrict.get_objective(coeff)
DistrictObjective(e, coeff) ==
    IF e.objective = "valley-filling"
    THEN Expression([t \in op_time_vec |-> coeff],
                    [t \in op_time_vec |-> 2 * coeff * e.valley_profile[t]], 1)
    ELSE IF e.objective = "price"
    THEN LET s == SumAbs(e.prices, 0)
         IN  IF s > 0
             THEN Expression(Zeros, [t \in op_time_vec |-> e.prices[t] * Horizon], s)
             ELSE Expression(Zeros, Zeros, 1)
    ELSE ParentObjective(coeff)

\* Battery.get_objective(coeff): obj.addTerms([coeff] * op_horizon, P, P)
BatteryObjective(coeff) ==
    Expression([t \in op_time_vec |-> coeff], Zeros, 1)

\* Boiler.get_objective(coeff): coeff * sum_product(p_th_heat_vars)
BoilerObjective(coeff) ==
    Expression(Zeros, [t \in op_time_vec |-> coeff], 1)

GetObjective(e, coeff) ==
    IF e.class = "CityDistrict" THEN DistrictObjective(e, coeff)
    ELSE IF e.class = "Battery" THEN BatteryObjective(coeff)
    ELSE BoilerObjective(coeff)

ObjectiveEntities ==
    [class : {"CityDistrict"}, objective : Objectives,
     prices : [op_time_vec -> PriceVals], valley_profile : Vec]
    \cup [class : {"Battery", "Boiler"}, objective : {"peak-shaving"},
          prices : {Zeros}, valley_profile : {Zeros}]

InitObjective ==
    /\ pc = "objective"
    /\ entity \in ObjectiveEntities
    /\ args \in [coeff : Coeffs]
    /\ model = NoModel
    /\ outcome = NoOutcome
    /\ variable = NoVariable
    /\ var_type = "None"
    /\ extracted = NoOutcome
    /\ AlgoIdle

\* a caller invokes entity.get_objective(coeff)
CallGetObjective ==
    /\ pc = "objective"
    /\ pc' = "objective_returned"
    /\ outcome' = Returns(GetObjective(entity, args.coeff))
    /\ UNCHANGED <<ddVars, centralVars, P_El_vars, result, cursor,
                   P_El_Schedule, updated, raised, exc_args, returned>>
    /\ UNCHANGED <<schedVars, mpiVars, utilVars, entity, args, model>>

NextObjective == CallGetObjective

SpecObjective == InitObjective /\ [][NextObjective]_vars

\* ------------------------------------------------- Battery
EnergyVals == 0 .. MaxBound
Timesteps == 0 .. MaxTimestep

\* E_El_Init_constr = None
NoConstr == [model |-> 0, n |-> 0]

\* arguments of the constructor, with the energy schedule the battery will
\* hold for the time steps it has passed
BatteryArgs ==
    [api : {"pyomo", "gurobi"}, e_el_max : {MaxBound},
     p_el_max_charge : 1 .. MaxBound, discharge : Discharges,
     soc_init : {0, 1}, e_el_schedule : [0 .. (MaxTimestep - 1) -> EnergyVals]]

\* the initial-energy conditions a model holds
InitConditions(m) == m.constrs

\* model.remove(self.E_El_Init_constr) fails with GurobiError when the
\* constraint is None or belongs to another model
RemoveFails(m, handle) == handle \notin {c.id : c \in m.constrs}

\* a failed removal changes nothing
RemoveConstrKeeps(m, handle) == m.constrs

\* try: model.remove(self.E_El_Init_constr) except GurobiError: pass
RemoveConstr(m, handle) ==
    IF RemoveFails(m, handle) THEN m.constrs
    ELSE {c \in m.constrs : c.id # handle}

\* E_El_Ini of the current timestep
InitialEnergy(e) ==
    IF e.timestep = 0 THEN e.battery.soc_init * e.battery.e_el_max
    ELSE e.e_el_schedule[e.timestep - 1]

\* populate_model on a new model: the gurobi class adds no initial-energy
\* constraint, the pyomo class declares the parameter e_el_init with the
\* default soc_init * e_el_max
PopulatedBatteryModel(e, id) ==
    [id |-> id,
     constrs |-> IF e.battery.api = "pyomo"
                 THEN {[id |-> [model |-> id, n |-> 0],
                        rhs |-> e.battery.soc_init * e.battery.e_el_max]}
                 ELSE {}]

\* Battery.update_model: the model afterwards
UpdatedBatteryModel(e, m) ==
    IF e.battery.api = "pyomo"
    THEN [m EXCEPT !.constrs = {[id |-> [model |-> m.id, n |-> 0],
                                 rhs |-> InitialEnergy(e)]}]
    ELSE [m EXCEPT !.constrs =
            RemoveConstr(m, e.E_El_Init_constr) \cup
            {[id |-> [model |-> m.id, n |-> e.calls + 1],
              rhs |-> InitialEnergy(e)]}]

InitBattery ==
    /\ pc = "battery_new"
    /\ entity = NoEntity
    /\ args \in BatteryArgs
    /\ model = NoModel
    /\ outcome = NoOutcome
    /\ variable = NoVariable
    /\ var_type = "None"
    /\ extracted = NoOutcome
    /\ AlgoIdle

batteryRest == <<ddVars, centralVars, P_El_vars, result, cursor, P_El_Schedule,
                 updated, raised, exc_args, returned, schedVars, mpiVars,
                 utilVars>>

\* Battery(...) followed by populate_model on a first model
NewBattery ==
    /\ pc = "battery_new"
    /\ pc' = "battery"
    /\ LET e == [battery |-> Battery(args.api, args.e_el_max, args.p_el_max_charge,
                                     args.discharge, args.soc_init),
                 timestep |-> 0, e_el_schedule |-> args.e_el_schedule,
                 E_El_Init_constr |-> NoConstr, calls |-> 0, last |-> "populate_model"]
       IN  /\ entity' = e
           /\ model' = PopulatedBatteryModel(e, 1)
    /\ outcome' = Returns(0)
    /\ UNCHANGED <<batteryRest, args>>

\* populate_model on a new model for the next scheduling optimization
RepopulateBattery ==
    /\ pc = "battery"
    /\ model.id < MaxModels
    /\ model' = PopulatedBatteryModel(entity, model.id + 1)
    /\ entity' = [entity EXCEPT !.calls = 0, !.last = "populate_model"]
    /\ UNCHANGED <<batteryRest, args, outcome, pc>>

\* Battery.update_model
BatteryUpdateModel ==
    /\ pc = "battery"
    /\ entity.calls < MaxCalls
    /\ model' = UpdatedBatteryModel(entity, model)
    /\ entity' = [entity EXCEPT
                    !.E_El_Init_constr =
                        IF entity.battery.api = "pyomo" THEN NoConstr
                        ELSE [model |-> model.id, n |-> entity.calls + 1],
                    !.calls = entity.calls + 1,
                    !.last = "update_model"]
    /\ UNCHANGED <<batteryRest, args, outcome, pc>>

\* the timer moves the timestep pointer
AdvanceTimestep ==
    /\ pc = "battery"
    /\ entity.timestep < MaxTimestep
    /\ entity' = [entity EXCEPT !.timestep = entity.timestep + 1,
                                !.last = "timer"]
    /\ UNCHANGED <<batteryRest, args, outcome, pc, model>>

NextBattery ==
    \/ NewBattery
    \/ RepopulateBattery
    \/ BatteryUpdateModel
    \/ AdvanceTimestep

SpecBattery == InitBattery /\ [][NextBattery]_vars

\* ------------------------------------------------- node-to-rank assignment
\* the worker counts and node counts the assignment is computed for
MpiSizes == 1 .. MaxWorkers
NodeCounts == 1 .. MaxEntities

\* divmod is taken of the node count, the aggregator included
PostsolveRankIdRangeAllNodes(size, n) ==
    SortRanks(
        IF size > n THEN [i \in 1 .. n |-> i - 1]
        ELSE IF size < n
        THEN IF size = 1 THEN [i \in 1 .. n |-> 0]
             ELSE LET a == n \div (size - 1)
                      b == n % (size - 1)
                  IN  <<0>> \o RepeatEach(1, size - 1, a) \o AppendRemainder(b)
        ELSE [i \in 1 .. n |-> i - 1])

\* rank_id_range as _postsolve computes it (mpi_size > 1)
PostsolveRankIdRange(size, n) ==
    SortRanks(
        IF size > n THEN [i \in 1 .. n |-> i - 1]
        ELSE IF size < n
        THEN IF size = 1 THEN [i \in 1 .. n |-> 0]
             ELSE LET a == (n - 1) \div (size - 1)
                      b == (n - 1) % (size - 1)
                  IN  <<0>> \o RepeatEach(1, size - 1, a) \o AppendRemainder(b)
        ELSE [i \in 1 .. n |-> i - 1])

\* nodes (counted from 0) that an assignment gives to rank r
NodesOf(range, r) == {i \in 0 .. (Len(range) - 1) : range[i + 1] = r}

\* nothing has been computed yet
NoAssignment == [kind |-> "none", iteration |-> <<>>, postsolve |-> <<>>]

InitPartition ==
    /\ pc = "partition"
    /\ args \in [mpi_size : MpiSizes, nodes : NodeCounts]
    /\ outcome = NoAssignment
    /\ entity = NoEntity
    /\ model = NoModel
    /\ variable = NoVariable
    /\ var_type = "None"
    /\ extracted = NoOutcome
    /\ AlgoIdle

partitionRest == <<ddVars, centralVars, P_El_vars, result, cursor, P_El_Schedule,
                   updated, raised, exc_args, returned, schedVars, mpiVars,
                   utilVars, entity, args, model>>

\* _iteration computes rank_id_range
IterationAssignment ==
    /\ pc = "partition"
    /\ outcome' = [outcome EXCEPT !.kind = "_iteration",
                       !.iteration = RankIdRange(args.mpi_size, args.nodes)]
    /\ pc' = "iterated"
    /\ UNCHANGED partitionRest

\* _postsolve computes rank_id_range again when there is more than one rank,
\* and leaves everything to the base class otherwise
PostsolveAssignment ==
    /\ pc = "iterated"
    /\ outcome' = IF args.mpi_size > 1
                  THEN [outcome EXCEPT !.kind = "_postsolve",
                            !.postsolve = PostsolveRankIdRange(args.mpi_size,
                                                               args.nodes)]
                  ELSE [outcome EXCEPT !.kind = "super"]
    /\ pc' = "postsolved"
    /\ UNCHANGED partitionRest

NextPartition ==
    \/ IterationAssignment
    \/ PostsolveAssignment

SpecPartition == InitPartition /\ [][NextPartition]_vars

\* ------------------------------------------------- calculate_flexibility_potential
\* names of the schedules the district holds during the call
FlexScheduleNames == {"default", "tmp", "flexibility-potential-quantification-ref"}

\* objectives a city district can be created with
DistrictObjectives == {"price", "peak-shaving", "none", "flexibility-quantification"}

\* keys of the algorithms dictionary
FlexAlgorithms == {"exchange-admm", "dual-decomposition", "stand-alone", "local",
                   "central"}

\* values of the metric absolute_flexibility_gain, which is computed outside
\* this function
GainVals == 0 .. PowerMax

\* the district is the entity; found is a history field holding the current
\* schedule and the objective at the time of the call
InitFlex ==
    /\ pc = "flex_call"
    /\ \E d \in Vec, o \in DistrictObjectives :
        entity = [class |-> "CityDistrict",
                  schedules |-> [n \in FlexScheduleNames |->
                                    IF n = "default" THEN d ELSE Missing],
                  current_schedule |-> "default",
                  objective |-> o,
                  found |-> [schedule |-> d, objective |-> o]]
    /\ args \in [algorithm : FlexAlgorithms, reference_algorithm : FlexAlgorithms]
    /\ model = NoModel
    /\ outcome = NoOutcome
    /\ variable = NoVariable
    /\ var_type = "None"
    /\ extracted = NoOutcome
    /\ AlgoIdle

flexRest == <<ddVars, centralVars, P_El_vars, result, cursor, P_El_Schedule,
              updated, raised, exc_args, returned, schedVars, mpiVars,
              utilVars, args, model>>

\* city_district.copy_schedule(dst="tmp")
FlexSaveSchedule ==
    /\ pc = "flex_call"
    /\ entity' = [entity EXCEPT !.schedules =
                    CopySchedule(@, entity.current_schedule, "tmp", "None")]
    /\ pc' = "flex_reference"
    /\ UNCHANGED <<flexRest, outcome>>

\* f(city_district): the run either writes the district's current schedule
\* and returns, or raises, which ends calculate_flexibility_potential as well
\* (no statement of it catches anything)
RunAlgorithm(name, after) ==
    \/ \E v \in Vec :
        /\ entity' = [entity EXCEPT !.schedules[entity.current_schedule] = v]
        /\ pc' = after
        /\ UNCHANGED outcome
    \/ \E e \in {"NonoptimalError", "MaxIterationError"} :
        /\ e = "MaxIterationError" => name \in {"exchange-admm", "dual-decomposition"}
        /\ outcome' = [kind |-> "raised", value |-> e]
        /\ pc' = "flex_raised"
        /\ UNCHANGED entity

\* f = algorithms[reference_algorithm]; f(city_district)
FlexRunReference ==
    /\ pc = "flex_reference"
    /\ RunAlgorithm(args.reference_algorithm, "flex_copy_ref")
    /\ UNCHANGED flexRest

\* city_district.copy_schedule("flexibility-potential-quantification-ref")
FlexCopyReference ==
    /\ pc = "flex_copy_ref"
    /\ entity' = [entity EXCEPT !.schedules =
                    CopySchedule(@, entity.current_schedule,
                                 "flexibility-potential-quantification-ref", "None")]
    /\ pc' = "flex_objective"
    /\ UNCHANGED <<flexRest, outcome>>

\* city_district.objective = 'flexibility-quantification'
FlexSetObjective ==
    /\ pc = "flex_objective"
    /\ entity' = [entity EXCEPT !.objective = "flexibility-quantification"]
    /\ pc' = "flex_algorithm"
    /\ UNCHANGED <<flexRest, outcome>>

\* f = algorithms[algorithm]; f(city_district)
FlexRunAlgorithm ==
    /\ pc = "flex_algorithm"
    /\ RunAlgorithm(args.algorithm, "flex_gain")
    /\ UNCHANGED flexRest

\* flex = absolute_flexibility_gain(...); city_district.copy_schedule(src="tmp");
\* return flex
FlexReturn ==
    /\ pc = "flex_gain"
    /\ \E flex \in GainVals : outcome' = [kind |-> "returned", value |-> flex]
    /\ entity' = [entity EXCEPT !.schedules =
                    CopySchedule(@, entity.current_schedule, "None", "tmp")]
    /\ pc' = "flex_returned"
    /\ UNCHANGED flexRest

NextFlex ==
    \/ FlexSaveSchedule
    \/ FlexRunReference
    \/ FlexCopyReference
    \/ FlexSetObjective
    \/ FlexRunAlgorithm
    \/ FlexReturn

SpecFlex == InitFlex /\ [][NextFlex]_vars

\* =================================================================== claims
\* position of entity e in the sequence of update_schedule calls, 0 if absent
RECURSIVE PositionIn(_, _, _)
PositionIn(seq, e, i) ==
    IF i > Len(seq) THEN 0
    ELSE IF seq[i] = e THEN i ELSE PositionIn(seq, e, i + 1)

FreshSchedules == [e \in Entities |-> Zeros]

\* sum over the direct children of their committed schedule at time step t
RECURSIVE ChildrenTotal(_, _)
ChildrenTotal(t, n) ==
    IF n = 0 THEN 0 ELSE P_El_Schedule[n][t] + ChildrenTotal(t, n - 1)

Imbalance(t) == ChildrenTotal(t, NumNodes) - P_El_Schedule[0][t]

\* C1: after a successful return of dual_decomposition, at every time step
\* the sum of the children's committed schedules differs from the district's
\* committed schedule by at most eps_primal.
C1_BalanceWithinTolerance ==
    pc = "returned" =>
        \A t \in op_time_vec :
            /\ Imbalance(t) <= eps_primal
            /\ -Imbalance(t) <= eps_primal

\* a run returned after two passes with an imbalance of exactly eps_primal
C1_Witness ==
    /\ pc = "returned"
    /\ iteration = 2
    /\ eps_primal = 1
    /\ \E t \in op_time_vec : Imbalance(t) = -1
    /\ \E t \in op_time_vec : P_El_Schedule[0][t] # 0

\* C2: within one iteration every node and the aggregator are solved with the
\* lambdas held at the start of that iteration, in the sequential function
\* and in the MPI class; lambdas change only once all entities of the round
\* have been solved and their trajectories collected.
C2_SnapshotPerIteration ==
    /\ [](\A e \in solved :
            \A t \in op_time_vec :
                objective[e][t] = IF e = 0 THEN -lambdas_start[t] ELSE lambdas_start[t])
    /\ [](pc \in {"nodes", "incentive"} => lambdas = lambdas_start)
    /\ [][lambdas' # lambdas =>
            /\ solved = Entities
            /\ \A e \in Entities : P_El_Schedules[e] = P_El_vars[e]]_vars
    /\ [](\A i \in DOMAIN solved_iter :
            solved_iter[i] > 0 => model_lambdas[i] = lambda_hist[solved_iter[i]])
    /\ [][(pc = "mpi" /\ params_lambdas'[0] # params_lambdas[0]) =>
            \A i \in Entities :
                /\ solved_iter[i] = iterations[0]
                /\ P_El_Schedules[i] = P_El_vars[i]]_vars

\* several ranks; a node was solved in the second iteration with lambdas
\* that differ from the initial ones
C2_Witness ==
    /\ pc = "mpi"
    /\ mpi_size >= 2
    /\ \E i \in Entities :
        /\ i # 0
        /\ solved_iter[i] = 2
        /\ model_lambdas[i] # Zeros
        /\ model_lambdas[i] = params_lambdas[0]

\* C3: when the residual norm is still above eps_primal after max_iterations
\* passes the next step raises MaxIterationError and returns nothing; a run
\* never makes more than max_iterations solve rounds; a run that ended with
\* MaxIterationError has called update_schedule on no entity.
C3_MaxIterationRaises ==
    /\ [][(/\ pc = "while"
           /\ Len(r_norms) - 1 = max_iterations
           /\ r_norms[Len(r_norms)] > eps_primal)
          => (raised' = "MaxIterationError" /\ returned' = <<>>)]_vars
    /\ [](solve_calls <= max_iterations * (NumNodes + 1))
    /\ [](raised = "MaxIterationError" =>
            /\ updated = <<>>
            /\ returned = <<>>
            /\ P_El_Schedule = FreshSchedules)

\* MaxIterationError after max_iterations >= 1 complete solve rounds
C3_Witness ==
    /\ raised = "MaxIterationError"
    /\ max_iterations >= 1
    /\ solve_calls = max_iterations * (NumNodes + 1)
    /\ Len(r_norms) = max_iterations + 1

\* C4: a solve that ends with a termination condition other than optimal or
\* a status other than ok raises NonoptimalError at once: nothing runs after
\* it, lambdas and r_norms are not updated for that round, and no entity's
\* schedule is committed.
C4_NonoptimalAborts ==
    /\ []((result.termination_condition \notin {"optimal", "none"}
           \/ result.status \notin {"ok", "none"})
          => raised = "NonoptimalError")
    /\ [](raised = "NonoptimalError" =>
            /\ updated = <<>>
            /\ P_El_Schedule = FreshSchedules
            /\ returned = <<>>
            /\ lambdas = lambdas_start
            /\ Len(r_norms) = iteration)
    /\ [][raised # "NonoptimalError"]_vars

\* NonoptimalError in the second pass, after a node of that pass was solved
C4_Witness ==
    /\ raised = "NonoptimalError"
    /\ iteration = 2
    /\ solved # {}
    /\ result.termination_condition = "optimal"
    /\ result.status = "warning"

\* C5: central_optimization never returns normally with schedules written
\* when its solver call did not reach optimal status.
C5_CentralRaisesWhenNonoptimal ==
    (pc \in {"central_update_nodes", "central_returned"}
     /\ result.termination_condition # "optimal")
        => (updated = <<>> /\ pc # "central_returned")

\* C6: whenever a dual decomposition run terminates, by returning or by
\* MaxIterationError, r_norms has as many entries as the iteration counter
\* says.
C6_HistoryLengthIsIteration ==
    (pc = "returned" \/ raised = "MaxIterationError")
        => Len(r_norms) = iteration

\* C7: when a run ends with MaxIterationError the residual norms computed in
\* the completed passes reach the caller, returned or attached to the error:
\* the error carries more than its message, or a value is returned.
C7_HistoryPreserved ==
    (raised = "MaxIterationError" /\ Len(r_norms) >= 2)
        => (Len(exc_args) >= 2 \/ Len(returned) >= 2)

\* C8: the iteration counter starts at 0, grows by exactly 1 on every pass of
\* the loop, never shrinks, and the value returned on success is the number
\* of solve rounds that were executed.
C8_IterationCounts ==
    /\ iteration = 0
    /\ [][iteration' = iteration \/ iteration' = iteration + 1]_vars
    /\ [][(pc = "while" /\ pc' # "update_district") => iteration' = iteration + 1]_vars
    /\ [](pc = "returned" =>
            /\ returned[1] = iteration
            /\ solve_calls = returned[1] * (NumNodes + 1)
            /\ Len(returned[2]) = returned[1] + 1)

\* a successful return after two solve rounds
C8_Witness ==
    /\ pc = "returned"
    /\ returned[1] = 2
    /\ solve_calls = 2 * (NumNodes + 1)

\* C9: on success update_schedule is called on every child of the district
\* before it is called on the district itself.
C9_ChildrenBeforeDistrict ==
    pc \in {"returned", "central_returned"} =>
        \A n \in NodeIds :
            /\ PositionIn(updated, n, 1) > 0
            /\ PositionIn(updated, n, 1) < PositionIn(updated, 0, 1)

\* the sequence copy_schedule(name), load_schedule(name) has just been made
CopiedThenLoaded(name) ==
    calls = << <<"copy_schedule", name, "None">>, <<"load_schedule", name, "None">> >>

\* C10 as stated: copy_schedule(name) followed at once by load_schedule(name)
\* leaves "default" as it was before the copy, and the schedule then read as
\* current has those values.
C10_DefaultUntouched ==
    \A name \in ScheduleNames :
        CopiedThenLoaded(name) =>
            /\ schedules["default"] = before.schedules["default"]
            /\ CurrentValues(schedules, current_schedule) = before.schedules["default"]

\* C10 amended: the pair leaves the schedule that was current before the copy
\* as it was, and the schedule then read as current has those values;
\* "default" keeps its values unless name is "default" and another schedule
\* was current.
C10_CurrentPreserved ==
    \A name \in ScheduleNames :
        CopiedThenLoaded(name) =>
            /\ schedules[before.current] = before.schedules[before.current]
            /\ CurrentValues(schedules, current_schedule)
                   = before.schedules[before.current]
            /\ current_schedule = name
            /\ (name # "default" \/ before.current = "default")
                   => schedules["default"] = before.schedules["default"]

\* copy to a new name and load it while "Ref" is current and differs from "default"
C10_Witness ==
    /\ CopiedThenLoaded("tmp")
    /\ before.current = "Ref"
    /\ before.schedules["tmp"] = Missing
    /\ schedules["default"] # schedules["Ref"]
    /\ current_schedule = "tmp"

\* the value of [lb, ub] closest to zero
ClosestToZero(v) ==
    IF v.has_ub /\ v.ub < 0 THEN v.ub
    ELSE IF v.has_lb /\ v.lb > 0 THEN v.lb
    ELSE 0

\* C11: for a stale variable with bounds lb <= ub (each possibly absent)
\* extract_pyomo_value returns the value of [lb, ub] closest to zero; it
\* never ends without a defined value and never leaves the bounds.
C11_StaleClosestToZero ==
    (pc = "extracted" /\ ~variable.indexed /\ variable.stale) =>
        /\ extracted.kind = "return"
        /\ extracted.value = ClosestToZero(variable)
        /\ ~OutOfBounds(variable, extracted.value)

\* C12: populate_model of CityDistrict, Battery, Boiler and Chiller called
\* with a mode other than "convex" or "integer" raises an error and adds
\* nothing of its own to the model (the model holds what the parent added).
C12_UnknownModeRejected ==
    (pc = "populated" /\ args.mode \notin {"convex", "integer"}) =>
        /\ outcome.kind \notin {"return", "none"}
        /\ model = ParentPopulate(entity)

\* C13: populate_models either raises or returns a mapping that holds the
\* aggregator model under key 0, never an empty mapping; every algorithm
\* name of its documentation (with a known mode) yields a mapping with key 0.
C13_MappingHasAggregator ==
    pc = "models_populated" =>
        /\ (outcome.kind = "return" => 0 \in DOMAIN outcome.value)
        /\ ((args.algorithm \in DocumentedAlgorithms
                /\ args.mode \in {"convex", "integer"}) =>
             (outcome.kind = "return" /\ 0 \in DOMAIN outcome.value))

\* c times an objective
Scaled(c, expr) ==
    [quad |-> [t \in op_time_vec |-> c * expr.quad[t]],
     lin |-> [t \in op_time_vec |-> c * expr.lin[t]],
     den |-> expr.den]

\* two objectives are the same function of the power variables
SameObjective(a, b) ==
    \A t \in op_time_vec : /\ a.quad[t] = b.quad[t]
                           /\ a.lin[t] * b.den = b.lin[t] * a.den

\* C14: for every entity and objective kind get_objective(c) equals
\* c times get_objective(1): every term of the objective is scaled by coeff.
C14_ObjectiveScaledByCoeff ==
    pc = "objective_returned" =>
        SameObjective(outcome.value, Scaled(args.coeff, GetObjective(entity, 1)))

\* C15: after any number n >= 1 of consecutive Battery.update_model calls on
\* the same model, the timestep possibly advancing in between, the model
\* holds exactly one initial-energy condition, the one of the current
\* timestep: soc_init * capacity at timestep 0, else the scheduled energy of
\* step timestep - 1.
C15_OneInitialCondition ==
    (pc = "battery" /\ entity.last = "update_model") =>
        /\ Cardinality(InitConditions(model)) = 1
        /\ \A c \in InitConditions(model) :
              c.rhs = IF entity.timestep = 0
                      THEN entity.battery.soc_init * entity.battery.e_el_max
                      ELSE entity.e_el_schedule[entity.timestep - 1]

\* a third consecutive call after the timestep moved, on the gurobi class
C15_Witness ==
    /\ pc = "battery"
    /\ entity.last = "update_model"
    /\ entity.battery.api = "gurobi"
    /\ entity.calls = 3
    /\ entity.timestep = 2
    /\ entity.e_el_schedule[1] # entity.e_el_schedule[0]
    /\ entity.e_el_schedule[0] # entity.battery.soc_init * entity.battery.e_el_max
    /\ model.id = 2

\* C16: a Battery constructed without p_el_max_discharge has a maximum
\* discharging power of zero; one constructed with an explicit value
\* (0 included) has exactly that value.
C16_DischargeDefaultZero ==
    pc = "battery" =>
        entity.battery.p_el_max_discharge =
            IF args.discharge.given THEN args.discharge.value ELSE 0

\* C17: pass k + 1 of the dual-decomposition loop is begun (the iteration is
\* counted) if and only if the residual norm recorded after pass k is
\* strictly greater than eps_primal; a run whose norm is at or below
\* eps_primal after pass k, k = max_iterations included, leaves the loop
\* without error and without another solve and returns the count k. In the
\* MPI class the same holds on every rank once a norm has been recorded.
C17_StopsIffWithinTolerance ==
    /\ [][iteration' # iteration =>
            (pc = "while" /\ r_norms[Len(r_norms)] > eps_primal)]_vars
    /\ [][(pc = "while" /\ r_norms[Len(r_norms)] > eps_primal) =>
            iteration' = iteration + 1]_vars
    /\ [][(pc = "while" /\ r_norms[Len(r_norms)] <= eps_primal) =>
            (/\ pc' = "update_district"
             /\ iteration' = iteration
             /\ raised' = "none")]_vars
    /\ [][(pc = "update_district" \/ pc = "update_nodes" \/ pc = "returned") =>
            (/\ solve_calls' = solve_calls
             /\ iteration' = iteration
             /\ r_norms' = r_norms
             /\ raised' = "none")]_vars
    /\ [](pc = "returned" =>
            /\ returned[1] = Len(r_norms) - 1
            /\ returned[1] <= max_iterations
            /\ r_norms[Len(r_norms)] <= eps_primal
            /\ \A k \in 1 .. (Len(r_norms) - 1) : r_norms[k] > eps_primal)
    /\ [](pc = "mpi" =>
            \A r \in DOMAIN mpi_pc :
                /\ (mpi_pc[r] = "postsolve" =>
                        /\ Len(mpi_r_norms[r]) = iterations[r]
                        /\ iterations[r] <= max_iterations
                        /\ mpi_r_norms[r][iterations[r]] <= eps_primal)
                /\ \A k \in 1 .. (Len(mpi_r_norms[r]) - 1) :
                        mpi_r_norms[r][k] > eps_primal)
    /\ [][pc = "mpi" =>
            \A r \in DOMAIN mpi_pc :
                iterations'[r] # iterations[r] =>
                    (/\ iterations'[r] = iterations[r] + 1
                     /\ Len(mpi_r_norms[r]) = iterations[r]
                     /\ (iterations[r] > 0 =>
                            mpi_r_norms[r][iterations[r]] > eps_primal))]_vars
    /\ [][(pc = "mpi" /\ \E r \in DOMAIN mpi_pc : mpi_pc[r] = "postsolve") =>
            (P_El_vars' = P_El_vars /\ iterations' = iterations)]_vars

\* a run that returned after pass k = max_iterations = 2 with a norm equal
\* to eps_primal
C17_Witness ==
    /\ pc = "returned"
    /\ max_iterations = 2
    /\ returned[1] = 2
    /\ eps_primal = 1
    /\ r_norms[3] = 1
    /\ r_norms[2] > 1

\* sum over the non-aggregator entities 1 .. n of their value in P at time t
RECURSIVE NodesTotal(_, _, _)
NodesTotal(P, t, n) ==
    IF n = 0 THEN 0 ELSE P[n][t] + NodesTotal(P, t, n - 1)

\* C18: in every iteration the new lambda is, at every time step t,
\* lambda_old[t] - rho * P_district[t] + rho * (sum of P_entity[t] over the
\* non-aggregator entities), with the trajectories solved in that iteration;
\* in the sequential function and on rank 0 of the MPI class, and lambda
\* changes in no other step.
C18_LambdaUpdateRule ==
    /\ [][pc = "incentive" =>
            \A t \in op_time_vec :
                lambdas'[t] = (lambdas[t] - rho * P_El_vars[0][t])
                                + rho * NodesTotal(P_El_vars, t, NumNodes)]_vars
    /\ [][lambdas' # lambdas => pc = "incentive"]_vars
    /\ [][(pc = "mpi" /\ mpi_r_norms'[0] # mpi_r_norms[0]) =>
            \A t \in op_time_vec :
                params_lambdas'[0][t] =
                    (params_lambdas[0][t] - rho * P_El_vars[0][t])
                        + rho * NodesTotal(P_El_vars, t, NumNodes)]_vars
    /\ [][(pc = "mpi" /\ params_lambdas'[0] # params_lambdas[0]) =>
            mpi_r_norms'[0] # mpi_r_norms[0]]_vars

\* rank 0 of three made two updates that moved the signal down at one time
\* step and up at another
C18_Witness ==
    /\ pc = "mpi"
    /\ mpi_size = 3
    /\ Len(mpi_r_norms[0]) = 2
    /\ \E t \in op_time_vec : params_lambdas[0][t] = 0 - 2 * rho
    /\ \E t \in op_time_vec : params_lambdas[0][t] = 4 * rho

\* v is the maximum over the time steps of |sum of the non-aggregator
\* entities' values - the district's value| for the trajectories P
IsInfinityNorm(v, P) ==
    /\ \A t \in op_time_vec :
        /\ NodesTotal(P, t, NumNodes) - P[0][t] <= v
        /\ P[0][t] - NodesTotal(P, t, NumNodes) <= v
    /\ \E t \in op_time_vec :
        \/ NodesTotal(P, t, NumNodes) - P[0][t] = v
        \/ P[0][t] - NodesTotal(P, t, NumNodes) = v

\* C19: the residual norm appended in each iteration is the maximum over the
\* time steps t of |sum over the non-aggregator entities of P_entity[t] -
\* P_district[t]| for the trajectories of that iteration; it is never
\* negative; the sequential function and the MPI class (every rank that
\* solves or waits for the broadcast) record this same norm.
C19_ResidualIsInfinityNorm ==
    /\ [][pc = "residual" =>
            (/\ Len(r_norms') = Len(r_norms) + 1
             /\ IsInfinityNorm(r_norms'[Len(r_norms')], P_El_vars))]_vars
    /\ [](\A k \in DOMAIN r_norms : r_norms[k] >= 0)
    /\ [][(pc = "mpi" /\ mpi_r_norms'[0] # mpi_r_norms[0]) =>
            (/\ Len(mpi_r_norms'[0]) = Len(mpi_r_norms[0]) + 1
             /\ IsInfinityNorm(mpi_r_norms'[0][Len(mpi_r_norms'[0])], P_El_vars))]_vars
    /\ [](pc = "mpi" =>
            \A r \in DOMAIN mpi_r_norms :
                mpi_pc[r] # "returned_early" =>
                    \A k \in DOMAIN mpi_r_norms[r] :
                        /\ mpi_r_norms[r][k] >= 0
                        /\ k <= Len(mpi_r_norms[0])
                        /\ mpi_r_norms[r][k] = mpi_r_norms[0][k])

\* a rank other than 0 recorded a norm of 1 that stems from a district
\* value above the sum of the nodes
C19_Witness ==
    /\ pc = "mpi"
    /\ mpi_size >= 2
    /\ Len(mpi_r_norms[1]) = 1
    /\ mpi_r_norms[1][1] = 1
    /\ iterations[0] = 1
    /\ \A t \in op_time_vec : NodesTotal(P_El_vars, t, NumNodes) <= P_El_vars[0][t]

\* C20: the incentive term enters the objective of every non-aggregator
\* entity as +sum_t lambda[t]*P[t] and the objective of the aggregator as
\* -sum_t lambda[t]*P[t]; the district (index 0 in the MPI class) is the
\* only entity with the negative sign.
C20_IncentiveSigns ==
    /\ [](pc \in {"nodes", "incentive", "residual"} =>
            \A e \in solved : \A t \in op_time_vec :
                /\ (e # 0 => objective[e][t] = lambdas_start[t])
                /\ (e = 0 => objective[e][t] = 0 - lambdas_start[t]))
    /\ [](pc = "mpi" =>
            \A i \in Entities : \A t \in op_time_vec :
                solved_iter[i] > 0 =>
                    /\ (i # 0 => objective[i][t] = model_lambdas[i][t])
                    /\ (i = 0 => objective[i][t] = 0 - model_lambdas[i][t]))

\* the aggregator and a node were solved in the sequential function with a
\* signal that is not zero: their incentive terms have opposite signs
C20_Witness ==
    /\ pc = "incentive"
    /\ solved = Entities
    /\ \E t \in op_time_vec :
        /\ lambdas_start[t] # 0
        /\ objective[0][t] = 0 - lambdas_start[t]
        /\ \A n \in NodeIds : objective[n][t] = lambdas_start[t]

\* number of nodes an assignment gives to rank r
Load(range, r) == Cardinality(NodesOf(range, r))

\* the worker count is at least 2 and does not evenly divide the node count
Uneven(size, n) == size >= 2 /\ n % size # 0

\* the loads of the ranks of set S differ by at most one, and a rank of S with
\* a larger load has a lower index than every rank of S with a smaller load
EvenOver(range, S) ==
    \A r \in S, q \in S :
        /\ Load(range, r) - Load(range, q) <= 1
        /\ Load(range, r) > Load(range, q) => r < q

\* C21 (as stated): when mpi_size (>= 2) does not evenly divide the number of
\* nodes, the numbers of nodes owned by any two ranks differ by at most one
\* and the ranks that own one node more are the lowest-indexed ranks.
C21_EvenOverAllRanks ==
    (outcome.kind \in {"_iteration", "_postsolve"}
        /\ Uneven(args.mpi_size, args.nodes))
    => EvenOver(outcome.iteration, 0 .. (args.mpi_size - 1))

\* C21 (amended): when mpi_size (>= 2) does not evenly divide the number of
\* nodes, rank 0 owns the aggregator (node 0) and nothing else, and the other
\* nodes are distributed over the ranks 1 .. mpi_size-1 as evenly as possible:
\* the loads of any two of these ranks differ by at most one and the ranks
\* that own one node more are the lowest-indexed of them.
C21_EvenOverWorkerRanks ==
    (outcome.kind \in {"_iteration", "_postsolve"}
        /\ Uneven(args.mpi_size, args.nodes))
    => /\ NodesOf(outcome.iteration, 0) = {0}
       /\ EvenOver(outcome.iteration, 1 .. (args.mpi_size - 1))

\* an assignment with a remainder of two nodes has been computed
C21_Witness ==
    /\ outcome.kind = "_iteration"
    /\ args.mpi_size = 4
    /\ args.nodes = 6
    /\ Load(outcome.iteration, 1) = 2
    /\ Load(outcome.iteration, 2) = 2
    /\ Load(outcome.iteration, 3) = 1

\* C22: for every mpi_size >= 1 and node count n >= 1 the assignment gives
\* each node exactly one owner rank in 0 .. mpi_size-1 (the ranks' node sets
\* are pairwise disjoint and cover all nodes), gives node 0 to rank 0, and
\* _postsolve computes the same assignment as _iteration.
C22_AssignmentIsPartition ==
    /\ outcome.kind \in {"_iteration", "_postsolve", "super"}
       => LET range == outcome.iteration
              ranks == 0 .. (args.mpi_size - 1)
          IN  /\ Len(range) = args.nodes
              /\ \A i \in 0 .. (args.nodes - 1) :
                    Cardinality({r \in ranks : i \in NodesOf(range, r)}) = 1
              /\ UNION {NodesOf(range, r) : r \in ranks} = 0 .. (args.nodes - 1)
              /\ \A r \in ranks, q \in ranks :
                    r # q => NodesOf(range, r) \cap NodesOf(range, q) = {}
              /\ 0 \in NodesOf(range, 0)
    /\ outcome.kind = "_postsolve" => outcome.postsolve = outcome.iteration
    /\ outcome.kind = "super" => args.mpi_size = 1

\* both methods have computed the assignment of five nodes to three ranks
C22_Witness ==
    /\ outcome.kind = "_postsolve"
    /\ args.mpi_size = 3
    /\ args.nodes = 5
    /\ outcome.postsolve = <<0, 1, 1, 2, 2>>

\* the tag the claim gives the trajectory of entity j in iteration k
ClaimedTag(k, j) == k * NumEntities + j

\* the messages in flight that carry a trajectory of an iteration
TrajectoryMessages == {m \in channel : m.iteration >= 1}

\* C23: the message that carries entity j's trajectory in iteration k is sent
\* by j's owner rank to rank 0 and received by rank 0 from that owner with the
\* tag k*n + j; two messages with different (iteration, entity) pairs never
\* carry the same tag, so rank 0 stores every trajectory under the entity and
\* in the iteration it belongs to.
C23_TagsIdentifyTrajectory ==
    /\ [](\A m \in TrajectoryMessages :
            /\ m.source = Owner(m.entity)
            /\ m.dest = 0
            /\ m.tag = ClaimedTag(m.iteration, m.entity)
            /\ \A m2 \in TrajectoryMessages :
                  <<m2.iteration, m2.entity>> # <<m.iteration, m.entity>>
                  => m2.tag # m.tag)
    /\ [](\A k \in 1 .. MaxIterCap, k2 \in 1 .. MaxIterCap :
            \A j \in 1 .. NumNodes, j2 \in 1 .. NumNodes :
                <<k, j>> # <<k2, j2>> => Tag(k, j) # Tag(k2, j2))
    /\ [][(pc = "mpi" /\ mpi_size > 1 /\ xcursor' = xcursor + 1)
          => \E m \in TrajectoryMessages :
                /\ channel' = channel \ {m}
                /\ m.entity = xcursor
                /\ m.iteration = iterations[0]
                /\ m.source = Owner(xcursor)
                /\ m.tag = ClaimedTag(iterations[0], xcursor)
                /\ P_El_Schedules'[xcursor] = m.data
                /\ m.data = P_El_vars[xcursor]]_vars

\* in its second iteration rank 0 has received the trajectory of entity 1
\* from rank 1, which owns both nodes, and the one of entity 2 is in flight
C23_Witness ==
    /\ pc = "mpi"
    /\ mpi_size = 2
    /\ mpi_pc[0] = "exchange"
    /\ iterations[0] = 2
    /\ xcursor = 2
    /\ \E m \in channel : m.entity = 2 /\ m.iteration = 2 /\ m.source = 1

\* the trajectories rank r holds in its local p_el_schedules
Held(r) == IF r = 0 THEN P_El_Schedules ELSE p_el_schedules[r]

\* rank r has completed its latest iteration, broadcasts included
CompletedIteration(r) ==
    /\ iterations[r] >= 1
    /\ Len(mpi_r_norms[r]) = iterations[r]
    /\ mpi_pc[r] \in {"loop", "postsolve"}

\* C24 (as stated): after the point-to-point exchange and the broadcast of an
\* iteration every worker rank holds the power trajectory of every entity
\* computed in that iteration.
C24_EveryRankHoldsAll ==
    pc = "mpi"
    => \A r \in Ranks :
          CompletedIteration(r)
          => \A i \in Entities :
                solved_iter[i] = iterations[r] => Held(r)[i] = P_El_vars[i]

\* C24 (amended): after the point-to-point exchange of an iteration rank 0
\* holds the power trajectory of every entity computed in that iteration,
\* before it computes the residual and the lambda update of the round; a rank
\* other than 0 never holds more than the trajectories of the entities it
\* owns, and what the broadcast carries is the lambda vector rank 0 computed,
\* together with the residual vector, not the trajectories.
C24_RootHoldsAll ==
    pc = "mpi"
    => /\ (mpi_pc[0] = "exchange" /\ xcursor > NumNodes)
          => \A i \in Entities :
                /\ solved_iter[i] = iterations[0]
                /\ P_El_Schedules[i] = P_El_vars[i]
       /\ \A r \in Ranks \ {0} : \A i \in Entities :
             /\ p_el_schedules[r][i] # Unset => Owner(i) = r
             /\ (Owner(i) = r /\ solved_iter[i] >= 1)
                => p_el_schedules[r][i] = P_El_vars[i]
       /\ \A r \in Ranks : \A k \in 1 .. Len(bcast_box[r]) :
             LET sent == Len(lambda_hist) - Len(bcast_box[r]) + k
             IN  /\ Len(bcast_box[r][k]) = 2
                 /\ bcast_box[r][k][1] = lambda_hist[sent]
                 /\ MaxAbs(bcast_box[r][k][2], 0) = mpi_r_norms[0][sent - 1]

\* with three ranks, rank 0 holds all trajectories of the iteration after the
\* exchange while rank 1 holds the one of its own node and no other
C24_Witness ==
    /\ pc = "mpi"
    /\ mpi_size = 3
    /\ mpi_pc[0] = "exchange"
    /\ xcursor > NumNodes
    /\ P_El_Schedules[1] # Zeros
    /\ P_El_Schedules[2] # Zeros
    /\ p_el_schedules[1][1] = P_El_Schedules[1]
    /\ p_el_schedules[1][2] = Unset

\* rank r has ended _postsolve or has left the run with an exception
Stopped(r) == mpi_pc[r] \in {"done", "MaxIterationError", "ValueError"}

\* C25: after _postsolve with mpi_size > 1 every rank holds for every entity
\* the schedule that the entity's owner rank extracted with update_schedule,
\* for any mpi_size and node count; every schedule message sent by an owner is
\* received by the rank it was sent to, and the exchange completes on all
\* ranks. Stated of the states in which no rank can move any more.
C25_SchedulesOnEveryRank ==
    (/\ pc = "mpi"
     /\ mpi_size > 1
     /\ \A r \in Ranks : Stopped(r)
     /\ \E r \in Ranks : mpi_pc[r] = "done")
    => /\ \A r \in Ranks :
             /\ mpi_pc[r] = "done"
             /\ \A i \in Entities :
                   /\ mpi_schedule[Owner(i)][i] = P_El_vars[i]
                   /\ mpi_schedule[r][i] = mpi_schedule[Owner(i)][i]
       /\ channel = {}

\* rank r leaves every _iteration through the return of line 187
ReturnsEarly(r) == mpi_size > NumEntities /\ r > NumEntities

\* C26: after each iteration every rank of the communicator holds the same
\* lambda vector in params['lambdas'] and has appended the same scalar
\* residual norm to r_norms as rank 0, for any mpi_size >= 1. A rank for which
\* ReturnsEarly holds appends a vector, not a scalar.
C26_RanksAgree ==
    pc = "mpi"
    => \A r \in Ranks :
          /\ \A k \in 1 .. Len(mpi_r_norms[r]) :
                /\ ~ReturnsEarly(r)
                /\ k <= Len(mpi_r_norms[0])
                /\ mpi_r_norms[r][k] = mpi_r_norms[0][k]
          /\ (Len(mpi_r_norms[r]) = iterations[r] /\ iterations[r] >= 1)
             => /\ Len(lambda_hist) > iterations[r]
                /\ params_lambdas[r] = lambda_hist[iterations[r] + 1]

\* C27: for any mpi_size >= 1 and node count every rank of the communicator
\* takes part in both broadcasts of every iteration: a rank ends an iteration
\* (appends to r_norms) only in the step in which it broadcasts as root or
\* receives the broadcast.
C27_EveryRankBroadcasts ==
    [][\A r \in Ranks :
          (pc = "mpi" /\ mpi_size > 1
              /\ Len(mpi_r_norms'[r]) > Len(mpi_r_norms[r]))
          => IF r = 0
             THEN \A q \in Ranks \ {0} :
                     Len(bcast_box'[q]) = Len(bcast_box[q]) + 1
             ELSE /\ bcast_box[r] # <<>>
                  /\ bcast_box'[r] = Tail(bcast_box[r])]_vars

\* r[t] = (sum over the nodes of P_node[t]) - P_district[t]
ResidualOf(P, t) == NodesTotal(P, t, NumNodes) - P[0][t]

\* C28: in dual_decomposition lambda is the zero vector before the first
\* pass, and after k passes lambda[t] = rho * (r_1[t] + ... + r_k[t]) for
\* every time step t, where r_i = (sum over nodes of P_node) - P_district is
\* the residual whose infinity norm is the i-th recorded norm; the lambda
\* update and the recorded residual of a pass are computed from the same
\* set of trajectories.
C28_LambdaIsScaledResidualSum ==
    /\ [](iteration = 0 => lambdas = Zeros)
    /\ [](pc # "residual"
            => \A t \in op_time_vec : lambdas[t] = rho * residual_sum[t])
    /\ [][pc = "incentive"
          => (/\ pc' = "residual"
              /\ P_El_Schedules' = P_El_Schedules
              /\ \A t \in op_time_vec :
                    lambdas'[t] = lambdas[t] + rho * ResidualOf(P_El_Schedules, t))]_vars
    /\ [][pc = "residual"
          => (/\ P_El_Schedules' = P_El_Schedules
              /\ \A t \in op_time_vec :
                    residual_sum'[t] - residual_sum[t]
                        = ResidualOf(P_El_Schedules, t)
              /\ Len(r_norms') = Len(r_norms) + 1
              /\ Len(r_norms') = iteration + 1
              /\ IsInfinityNorm(Last(r_norms'), P_El_Schedules))]_vars

\* after two passes with different residuals lambda is rho times their sum,
\* which differs from rho times the last residual
C28_Witness ==
    /\ pc = "while"
    /\ rho = 2
    /\ iteration = 2
    /\ r_norms = <<Inf, 1, 2>>
    /\ residual_sum[0] = 3
    /\ residual_sum[1] = -1
    /\ lambdas[0] = 6
    /\ lambdas[1] = -2

\* C29: provided every solver call returns, dual_decomposition terminates:
\* for any finite max_iterations >= 0 it eventually returns or raises, after
\* at most max_iterations solve rounds; at least one round is attempted for
\* any finite eps_primal, and with max_iterations = 0 it raises
\* MaxIterationError before any solver call.
C29_Terminates ==
    /\ <>(pc \in {"returned", "raised"})
    /\ [](pc \in {"nodes", "incentive", "residual"}
            => iteration <= max_iterations)
    /\ [](solve_calls <= max_iterations * (NumNodes + 1))
    /\ [](pc \in {"returned", "raised"} => iteration >= 1)
    /\ [](max_iterations = 0
            => /\ solve_calls = 0
               /\ pc \in {"returned", "raised"}
                    => pc = "raised" /\ raised = "MaxIterationError")

\* the run used up all of its two rounds, with every entity solved in both,
\* and then raised
C29_Witness ==
    /\ pc = "raised"
    /\ raised = "MaxIterationError"
    /\ max_iterations = 2
    /\ iteration = 3
    /\ solve_calls = 2 * (NumNodes + 1)

\* calculate_flexibility_potential has ended, by returning or by raising
FlexEnded == pc \in {"flex_returned", "flex_raised"}

\* C30: calculate_flexibility_potential leaves the city district as it found
\* it: after the call ends, by returning or because one of the two algorithm
\* runs raised, the district's current schedule equals its schedule before
\* the call and the district's objective equals its objective before the
\* call.
C30_DistrictLeftAsFound ==
    FlexEnded
        => /\ CurrentValues(entity.schedules, entity.current_schedule)
                = entity.found.schedule
           /\ entity.objective = entity.found.objective

====
